---- MODULE Spec2Model ----
(***************************************************************************)
(* git-snap: the snapshot engine (git.Snapshot and the helpers it calls).  *)
(*                                                                         *)
(* Strings are modelled as sequences of one-character strings, so that     *)
(* lowercasing, extension extraction, pattern expansion and glob matching  *)
(* are computed the way the code computes them.  Three tokens stand for    *)
(* bytes that cannot be written as a TLA+ character: "LF" is a line feed,  *)
(* "xFF" is a byte that is not valid UTF-8, and "LONG" is a run of 256     *)
(* letters 'y' (a path component longer than 255 bytes).                   *)
(***************************************************************************)
EXTENDS Integers, Sequences, FiniteSets, TLC

(***************************************************************************)
(* Bounds of the model.                                                    *)
(***************************************************************************)
\* Largest number of entries in a commit tree.
MaxEntries == 2

(***************************************************************************)
(* Program constants.                                                      *)
(***************************************************************************)
DISCREPANCY_ATTEMPTS == 3
\* DISCREPANCY_DELAY, in seconds
DISCREPANCY_DELAY == 3
ERROR_BAD_CLONE_PATH == 201
ERROR_BAD_CLONE_GIT == 202
ERROR_BAD_OUTPUT_PATH == 203
ERROR_NO_REVISION == 205
ERROR_FILES_DISCREPANCY == 206
ERROR_TREE_NOT_FOUND == 208
\* len(fileName) > 255
MaxBaseNameLen == 255
\* len(filePath) > 4095
MaxPathLen == 4095

(***************************************************************************)
(* Strings.                                                                *)
(***************************************************************************)
\* Number of bytes one token of a modelled string stands for.
ByteLen(c) == IF c = "LONG" THEN 256 ELSE 1

RECURSIVE StrLen(_)
\* len(s): the length of a string in bytes.
StrLen(s) == IF s = <<>> THEN 0 ELSE ByteLen(Head(s)) + StrLen(Tail(s))

\* utf8.ValidString
ValidUTF8(s) == \A i \in 1..Len(s) : s[i] # "xFF"

\* strings.ContainsAny(name, "\n\r")
ContainsLineBreak(s) == \E i \in 1..Len(s) : s[i] \in {"LF", "CR"}

UpperLetters == <<"A", "B", "C", "D", "E", "F", "G", "H", "I", "J", "K", "L", "M",
                  "N", "O", "P", "Q", "R", "S", "T", "U", "V", "W", "X", "Y", "Z">>

LowerLetters == <<"a", "b", "c", "d", "e", "f", "g", "h", "i", "j", "k", "l", "m",
                  "n", "o", "p", "q", "r", "s", "t", "u", "v", "w", "x", "y", "z">>

\* unicode.ToLower on one character of the model's alphabet.
LowerChar(c) ==
    IF \E i \in 1..26 : UpperLetters[i] = c
    THEN LowerLetters[CHOOSE i \in 1..26 : UpperLetters[i] = c]
    ELSE c

\* strings.ToLower
ToLower(s) == [i \in 1..Len(s) |-> LowerChar(s[i])]

\* strings.HasPrefix
HasPrefix(s, p) == Len(s) >= Len(p) /\ SubSeq(s, 1, Len(p)) = p

\* Position of the last occurrence of character c in s, 0 when there is none.
LastIndex(s, c) ==
    LET hits == {i \in 1..Len(s) : s[i] = c}
    IN  IF hits = {} THEN 0 ELSE CHOOSE i \in hits : \A j \in hits : j <= i

\* filepath.Base, for the slash-separated paths the tree walker yields.
Base(s) == SubSeq(s, LastIndex(s, "/") + 1, Len(s))

\* filepath.Dir, for the same paths; <<>> stands for the output root.
Dir(s) == SubSeq(s, 1, LastIndex(s, "/") - 1)

\* filepath.Ext: the suffix of the last path element that starts at its last dot.
Ext(s) ==
    LET b == Base(s)
        d == LastIndex(b, ".")
    IN  IF d = 0 THEN <<>> ELSE SubSeq(b, d, Len(b))

(***************************************************************************)
(* util: the binary-extension table and the noise directories.             *)
(***************************************************************************)
extensions == {
    <<"7","z">>, <<"a","a","c">>, <<"a","i">>, <<"a","p","k">>, <<"a","r">>, <<"a","v","i">>,
    <<"b","i","n">>, <<"b","m","p">>, <<"b","z","2">>, <<"c","a","b">>, <<"c","b","r">>,
    <<"c","b","z">>, <<"c","r","x">>, <<"d","e","b">>, <<"d","m","g">>, <<"d","o","c">>,
    <<"d","o","c","x">>, <<"d","w","g">>, <<"d","x","f">>, <<"e","b","o","o","k">>, <<"e","g","g">>,
    <<"e","o","t">>, <<"e","p","s">>, <<"e","p","u","b">>, <<"e","x","e">>, <<"f","l","a","c">>,
    <<"f","l","v">>, <<"g","i","f">>, <<"g","p","x">>, <<"g","z">>, <<"i","s","o">>,
    <<"j","p","e","g">>, <<"j","p","g">>, <<"k","m","l">>, <<"k","m","z">>, <<"m","4","a">>,
    <<"m","k","v">>, <<"m","o","b","i">>, <<"m","o","v">>, <<"m","p","3">>, <<"m","p","4">>,
    <<"m","p","e","g">>, <<"m","p","g">>, <<"m","s","g">>, <<"m","s","i">>, <<"o","d","p">>,
    <<"o","d","s">>, <<"o","g","g">>, <<"o","g","m">>, <<"o","t","f">>, <<"p","a","k">>,
    <<"p","d","f">>, <<"p","i","c","k","l","e">>, <<"p","k","l">>, <<"p","n","g">>, <<"p","p","t">>,
    <<"p","s">>, <<"p","s","d">>, <<"r","a","r">>, <<"r","p","m">>, <<"r","s","t">>,
    <<"r","t","f">>, <<"s","7","z">>, <<"s","h","a","r">>, <<"s","k","e","t","c","h">>,
    <<"s","v","g">>, <<"t","a","r">>, <<"t","b","z","2">>, <<"t","g","z">>, <<"t","i","f">>,
    <<"t","i","f","f">>, <<"t","l","z">>, <<"t","t","f">>, <<"w","a","r">>, <<"w","a","v">>,
    <<"w","e","b","p">>, <<"w","h","l">>, <<"w","m","a">>, <<"w","m","v">>, <<"w","o","f","f">>,
    <<"w","o","f","f","2">>, <<"x","l","s">>, <<"x","l","s","x">>, <<"x","p","i">>, <<"z","i","p">>,
    <<"z","i","p","x">>
    }

noiseDirectories == <<
    <<".","g","i","t">>, <<".","i","d","e","a">>,
    <<"n","o","d","e","_","m","o","d","u","l","e","s">>, <<"b","i","n">>, <<"d","e","b","u","g">>,
    <<"r","e","l","e","a","s","e">>, <<"b","u","i","l","d">>, <<"o","b","j">>,
    <<"t","a","r","g","e","t">>, <<"v","e","n","v">>, <<"d","i","s","t">>,
    <<"a","p","p","_","d","a","t","a">>, <<"l","i","b">>, <<"l","i","b","6","4">>,
    <<"_","_","p","y","c","a","c","h","e","_","_">>, <<".","c","a","c","h","e">>
    >>

\* A table lookup that takes a path without extension for a binary file.
NotTextExt_EmptyIsBinary(ext) ==
    IF Len(ext) = 0 THEN TRUE ELSE Tail(ext) \in extensions

\* util.NotTextExt
NotTextExt(ext) ==
    IF Len(ext) = 0
    THEN FALSE
    ELSE SubSeq(ext, 2, Len(ext)) \in extensions

\* util.NoisyDirectoryExclusionPatterns
NoisyDirectoryExclusionPatterns ==
    [i \in 1..Len(noiseDirectories) |->
        <<"*", "*", "/">> \o noiseDirectories[i] \o <<"/", "*", "*">>]

complexityToolExcludePatterns == <<
    <<"*","*","/","b","i","n","/","*","*">>, <<"*","*","/","o","b","j","/","*","*">>,
    <<"*","*","/","v","e","n","v","/","*","*">>,
    <<"*","*","/","n","o","d","e","_","m","o","d","u","l","e","s","/","*","*">>,
    <<"*","*","/",".","i","d","e","a","/","*","*">>, <<"*","*","/",".","g","i","t","/","*","*">>,
    <<"*","*","/","s","i","t","e","-","p","a","c","k","a","g","e","s","/","*","*">>,
    <<"*","*","/","v","e","n","d","o","r","/","*","*">>,
    <<"*","*","/","t","e","s","t","_","r","e","s","o","u","r","c","e","s","/","*","*">>,
    <<"*","*","/","t","e","s","t","s","/","*","*">>,
    <<"*","*","/","t","e","s","t","i","n","g","/","*","*">>,
    <<"*","*","/","r","e","s","o","u","r","c","e","s","/","*","*">>,
    <<"*","*","/","t","e","s","t","d","a","t","a","/","*","*">>,
    <<"*","*","/","s","i","m","u","l","a","t","i","o","n","/","*","*">>,
    <<"*","*","/","s","i","m","u","l","a","t","o","r","/","*","*">>,
    <<"*","*","/","a","u","t","o","m","a","t","i","o","n","/","*","*">>
    >>

complexityToolExcludeSuffixes == <<
    <<"*","*","/","*","t","e","s","t","_","r","e","s","o","u","r","c","e","s",".","*">>,
    <<"*","*","/","*","t","e","s","t","s",".","*">>, <<"*","*","/","*","s","p","e","c",".","*">>,
    <<"*","*","/","*",".","m","i","n",".","j","s">>,
    <<"*","*","/","*",".","m","i","n",".","c","s","s">>,
    <<"*","*","/","*",".","b","u","n","d","l","e",".","j","s">>
    >>

\* getStatsExcludePatterns
getStatsExcludePatterns ==
    NoisyDirectoryExclusionPatterns \o complexityToolExcludePatterns
        \o complexityToolExcludeSuffixes

(***************************************************************************)
(* Glob patterns.                                                          *)
(***************************************************************************)
RECURSIVE GlobMatch(_, _)
\* glob.Compile(pattern).Match(s) with no separators given: '*' (and so
\* '**') matches any run of characters, '/' included; '?' matches one
\* character; every other character matches itself.
GlobMatch(pat, s) ==
    IF pat = <<>> THEN s = <<>>
    ELSE IF Head(pat) = "*"
         THEN GlobMatch(Tail(pat), s) \/ (s # <<>> /\ GlobMatch(pat, Tail(s)))
    ELSE IF Head(pat) = "?"
         THEN s # <<>> /\ ByteLen(Head(s)) = 1 /\ GlobMatch(Tail(pat), Tail(s))
    ELSE s # <<>> /\ Head(s) = Head(pat) /\ GlobMatch(Tail(pat), Tail(s))

\* The patterns expandPatternsIfNeeded appends for one pattern.
ExpandedCopies(pattern) ==
    (IF HasPrefix(pattern, <<"*", "/">>)
        THEN <<SubSeq(pattern, 3, Len(pattern))>> ELSE <<>>)
    \o
    (IF HasPrefix(pattern, <<"*", "*", "/">>)
        THEN <<SubSeq(pattern, 4, Len(pattern))>> ELSE <<>>)

RECURSIVE AppendedCopies(_)
AppendedCopies(patterns) ==
    IF patterns = <<>> THEN <<>>
    ELSE ExpandedCopies(Head(patterns)) \o AppendedCopies(Tail(patterns))

\* An expansion that goes on expanding the copies it appended.
expandPatternsIfNeeded_Again(patterns) ==
    patterns \o AppendedCopies(patterns) \o AppendedCopies(AppendedCopies(patterns))

\* expandPatternsIfNeeded: the loop ranges over the list it was given, the
\* copies are appended behind it.
expandPatternsIfNeeded(patterns) == patterns \o AppendedCopies(patterns)

\* compileGlobs
compileGlobs(patterns) == expandPatternsIfNeeded(patterns)

\* matches
matches(filePath, patterns) ==
    \E i \in 1..Len(patterns) : GlobMatch(patterns[i], filePath)

(***************************************************************************)
(* Tree entries and blobs.                                                 *)
(***************************************************************************)
\* filemode.FileMode values of go-git; "Malformed" is any other bit pattern.
FileModes == {"Empty", "Dir", "Regular", "Deprecated", "Executable", "Symlink",
              "Submodule", "Malformed"}

\* FileMode.IsFile
IsFile(mode) == mode \in {"Regular", "Deprecated", "Executable", "Symlink"}

\* FileMode.IsMalformed
IsMalformed(mode) == mode \notin (FileModes \ {"Malformed"})

\* A symlink test that never answers yes.
isSymlink_Never(mode) == FALSE

\* isSymlink: mode.ToOSFileMode() fails for a malformed mode (then false);
\* otherwise the os.ModeSymlink bit is set exactly for the symlink mode.
isSymlink(mode) ==
    IF mode \in {"Empty", "Malformed"} THEN FALSE ELSE mode = "Symlink"

\* Every entry a commit tree of the model can hold, in the order the tree
\* walker yields them (a directory before its children).
Universe == <<
    [name |-> <<"d">>,                               mode |-> "Dir",        hash |-> 10],
    [name |-> <<"d", "/", "A", ".", "g", "o">>,      mode |-> "Regular",    hash |-> 1],
    [name |-> <<"d", "/", "b", ".", "z", "i", "p">>, mode |-> "Executable", hash |-> 2],
    [name |-> <<"d", "/", "l">>,                     mode |-> "Symlink",    hash |-> 3],
    [name |-> <<"m">>,                               mode |-> "Submodule",  hash |-> 11],
    [name |-> <<"n", "LF">>,                         mode |-> "Regular",    hash |-> 4],
    [name |-> <<"w">>,                               mode |-> "Malformed",  hash |-> 5],
    [name |-> <<"x">>,                               mode |-> "Regular",    hash |-> 6],
    [name |-> <<"xFF">>,                             mode |-> "Regular",    hash |-> 7]
    >>

\* The bytes of the blob with a given object id; blob.Size is their number.
BlobBytes(h) ==
    CASE h = 1 -> <<65>>
      [] h = 2 -> <<80, 75>>
      [] h = 4 -> <<>>
      [] h = 6 -> <<35, 33, 10>>
      [] OTHER -> <<h>>

BlobSize(h) == Len(BlobBytes(h))

\* Hash.String(): the hexadecimal form of an object id.
HashString(h) == <<"hex", h>>

\* strconv.FormatBool
FormatBool(b) == IF b THEN "true" ELSE "false"

Range(t) == {t[i] : i \in 1..Len(t)}

RECURSIVE SubsequencesFrom(_, _)
\* The subsequences of Universe[i..] with at most n entries.
SubsequencesFrom(i, n) ==
    IF i > Len(Universe) \/ n = 0 THEN {<<>>}
    ELSE SubsequencesFrom(i + 1, n)
         \cup {<<Universe[i]>> \o t : t \in SubsequencesFrom(i + 1, n - 1)}

\* A tree holds the directory of every entry it holds.
ParentClosed(t) ==
    \A i \in 1..Len(t) :
        Dir(t[i].name) # <<>> =>
            \E j \in 1..(i - 1) : t[j].name = Dir(t[i].name) /\ t[j].mode = "Dir"

\* The commit trees of the model.
Trees == {t \in SubsequencesFrom(1, MaxEntries) : ParentClosed(t)}

(***************************************************************************)
(* The filter pipeline.                                                    *)
(***************************************************************************)
\* loadFilePathsList: column 0 of every row, rows that are not valid UTF-8
\* dropped; no paths file gives the empty list.
loadFilePathsList(o) ==
    IF o.PathsFileLocation = ""
    THEN {}
    ELSE {o.PathsFileRows[i] : i \in {j \in 1..Len(o.PathsFileRows) :
                                        ValidUTF8(o.PathsFileRows[j])}}

\* A whitelist test that lets nothing through an empty whitelist.
isFileInList_EmptyRejects(p, filePathToCheck) ==
    filePathToCheck \in p.fileListToSnap

\* isFileInList
isFileInList(p, filePathToCheck) ==
    filePathToCheck \in p.fileListToSnap \/ p.fileListToSnap = {}

\* GlobStage with the exclude list applied whether or not there are include
\* patterns (the `skip` flag ignored).
GlobStage_ExcludeWins(p, filePathToCheck) ==
    LET hasIncludePatterns == Len(p.includePatterns) > 0
    IN  IF hasIncludePatterns /\ ~matches(filePathToCheck, p.includePatterns)
        THEN "not matching include patterns"
        ELSE IF Len(p.excludePatterns) > 0
                /\ matches(filePathToCheck, p.excludePatterns)
             THEN "matching exclude patterns"
        ELSE ""

\* The include/exclude stage of shouldIncludeFile: the reason the path is
\* skipped for (the line it logs), "" when the stage lets the path through.
GlobStage(p, filePathToCheck) ==
    LET hasIncludePatterns == Len(p.includePatterns) > 0
        skip == ~hasIncludePatterns
    IN  IF hasIncludePatterns /\ ~matches(filePathToCheck, p.includePatterns)
        THEN "not matching include patterns"
        ELSE IF Len(p.excludePatterns) > 0
                /\ matches(filePathToCheck, p.excludePatterns) /\ skip
             THEN "matching exclude patterns"
        ELSE ""

\* shouldIncludeFile, with the reason of a skip: the first cheap filter that
\* rejects the entry, "" when none does.
SkipReason(p, name, entry) ==
    LET filePathToCheck ==
            IF p.opts.IgnoreCasePatterns THEN ToLower(name) ELSE name
    IN  IF ~IsFile(entry.mode) \/ IsMalformed(entry.mode) \/ isSymlink(entry.mode)
        THEN "not regular file"
        ELSE IF ~ValidUTF8(name)
             THEN "file path is not a valid UTF-8 string"
        ELSE IF ~isFileInList(p, filePathToCheck)
             THEN "not matching file list"
        ELSE IF GlobStage(p, filePathToCheck) # ""
             THEN GlobStage(p, filePathToCheck)
        ELSE IF p.opts.TextFilesOnly /\ NotTextExt(Ext(filePathToCheck))
             THEN "not a text file"
        ELSE IF StrLen(Base(name)) > MaxBaseNameLen \/ StrLen(name) > MaxPathLen
             THEN "file name is too long to snapshot"
        ELSE ""

\* shouldIncludeFile: the cheap filters, none of which reads a blob.
shouldIncludeFile(p, name, entry) == SkipReason(p, name, entry) = ""

\* A size filter that lets a file of exactly the maximum size through.
SizeFilterSkips_Above(o, size) == o.MaxFileSizeBytes > 0 /\ size > o.MaxFileSizeBytes

\* The size filter of shouldWriteFile, applied to a blob that was loaded.
SizeFilterSkips(o, size) == o.MaxFileSizeBytes > 0 /\ size >= o.MaxFileSizeBytes

\* addEntryToIndexFile: the record appended to the csv writer, if any.
addEntryToIndexFile(indexFile, name, entry) ==
    IF indexFile.open /\ ValidUTF8(name) /\ ~ContainsLineBreak(name)
    THEN [indexFile EXCEPT !.buffer =
            Append(@, <<name, HashString(entry.hash), FormatBool(IsFile(entry.mode))>>)]
    ELSE indexFile

(***************************************************************************)
(* Stats mode.                                                             *)
(***************************************************************************)
languageToExtensions == {
    [language |-> "java", extensions |-> {
        <<"j","a","v","a">>}],
    [language |-> "csharp", extensions |-> {
        <<"c","s">>, <<"c","s","h","t","m","l">>}],
    [language |-> "node", extensions |-> {
        <<"j","s">>, <<"j","s","x">>, <<"t","s">>, <<"t","s","x">>}],
    [language |-> "python", extensions |-> {
        <<"p","y">>, <<"p","y","3">>, <<"p","y","2">>}],
    [language |-> "kotlin", extensions |-> {
        <<"k","t">>, <<"k","t","s">>, <<"k","t","m">>}],
    [language |-> "c", extensions |-> {
        <<"c">>, <<"h">>}],
    [language |-> "cpp", extensions |-> {
        <<"c","p","p">>, <<"c","x","x">>, <<"c","c">>, <<"h","p","p">>, <<"h","h">>,
        <<"t","x","x">>, <<"t","p","p">>}],
    [language |-> "objectivec", extensions |-> {
        <<"m">>, <<"m","m">>}],
    [language |-> "swift", extensions |-> {
        <<"s","w","i","f","t">>}],
    [language |-> "ruby", extensions |-> {
        <<"r","b">>}],
    [language |-> "go", extensions |-> {
        <<"g","o">>}],
    [language |-> "rust", extensions |-> {
        <<"r","s">>}],
    [language |-> "scala", extensions |-> {
        <<"s","c","a","l","a">>, <<"s","c">>}],
    [language |-> "php", extensions |-> {
        <<"p","h","p">>, <<"p","h","t","m","l">>, <<"p","h","p","3">>, <<"p","h","p","4">>,
        <<"p","h","p","5">>, <<"p","h","p","7">>, <<"p","h","p","s">>, <<"p","h","t">>,
        <<"p","h","a","r">>}],
    [language |-> "fortran", extensions |-> {
        <<"f">>, <<"f","o","r">>, <<"f","7","7">>, <<"f","9","0">>, <<"f","9","5">>,
        <<"f","0","3">>, <<"f","0","3","p">>, <<"f","0","8">>, <<"f","0","8","p">>, <<"f","1","5">>,
        <<"f","2","0">>, <<"f","1","8">>, <<"f","2","k">>, <<"f","2","0","0","3">>,
        <<"f","2","0","0","8">>, <<"f","2","0","1","5">>, <<"f","2","0","1","8">>, <<"f","p","p">>,
        <<"f","t","n">>, <<"f","0","5">>, <<"F">>, <<"F","O","R">>, <<"F","7","7">>,
        <<"F","9","0">>, <<"F","9","5">>, <<"F","0","3">>, <<"F","0","8">>, <<"F","1","5">>,
        <<"F","1","8">>, <<"F","2","K">>, <<"F","2","0","0","3">>, <<"F","2","0","1","5">>,
        <<"F","2","0","0","8">>, <<"F","2","0","1","8">>, <<"F","P","P">>, <<"F","T","N">>}]
    }

\* init(): the languages the loop over languageToExtensions can leave in
\* extensionToLanguage[extension]. The loop ranges over a map, so when several
\* lists hold the extension the one written last depends on the iteration order.
extensionToLanguage(extension) ==
    {l.language : l \in {x \in languageToExtensions : extension \in x.extensions}}

\* GetLanguageFromExtension looking the extension up as it was given.
GetLanguageFromExtension_KeepsDot(ext) ==
    LET hits == extensionToLanguage(ext)
    IN  IF Len(ext) = 0 \/ hits = {} THEN ""
        ELSE CHOOSE l \in hits : TRUE

\* stats.GetLanguageFromExtension: "" when the extension is not recognised.
GetLanguageFromExtension(ext) ==
    LET e == IF HasPrefix(ext, <<".">>) THEN SubSeq(ext, 2, Len(ext)) ELSE ext
        hits == extensionToLanguage(e)
    IN  IF Len(ext) = 0 \/ hits = {} THEN ""
        ELSE CHOOSE l \in hits : TRUE

statsMaxFileSizeBytes == 6 * 1024 * 1024

\* stats.NewCodeStats
NewCodeStats ==
    [CountersByLanguage |-> {}, TotalFileCount |-> 0, SnapshotSizeInMb |-> 0,
     totalSizeBytes |-> 0]

\* An aggregator that counts a file in the total only when it opens a new
\* language bucket.
AddFile_TotalPerLanguage(cs, language, linesOfCode, sizeBytes) ==
    LET old == {b \in cs.CountersByLanguage : b.language = language}
        prev == IF old = {}
                THEN [language |-> language, NumberOfFiles |-> 0, LinesOfCode |-> 0]
                ELSE CHOOSE b \in old : TRUE
    IN  [cs EXCEPT
            !.TotalFileCount = IF old = {} THEN @ + 1 ELSE @,
            !.totalSizeBytes = @ + sizeBytes,
            !.CountersByLanguage = (@ \ old) \cup
                {[prev EXCEPT !.NumberOfFiles = @ + 1,
                              !.LinesOfCode = @ + linesOfCode]}]

\* CodeStats.AddFile; a language bucket is a record of CountersByLanguage.
AddFile(cs, language, linesOfCode, sizeBytes) ==
    LET old == {b \in cs.CountersByLanguage : b.language = language}
        prev == IF old = {}
                THEN [language |-> language, NumberOfFiles |-> 0, LinesOfCode |-> 0]
                ELSE CHOOSE b \in old : TRUE
    IN  [cs EXCEPT
            !.TotalFileCount = @ + 1,
            !.totalSizeBytes = @ + sizeBytes,
            !.CountersByLanguage = (@ \ old) \cup
                {[prev EXCEPT !.NumberOfFiles = @ + 1,
                              !.LinesOfCode = @ + linesOfCode]}]

\* A Finalize that truncates the quotient.
Finalize_Truncated(cs) ==
    [cs EXCEPT !.SnapshotSizeInMb = cs.totalSizeBytes \div (1024 * 1024)]

\* CodeStats.Finalize: math.Round of a non-negative quotient.
Finalize(cs) ==
    [cs EXCEPT !.SnapshotSizeInMb =
        (2 * cs.totalSizeBytes + 1024 * 1024) \div (2 * 1024 * 1024)]

(***************************************************************************)
(* The state of one run of Snapshot.                                       *)
(***************************************************************************)
VARIABLES
    opts,               \* options.Options: the flags until ParseOptions returned
    tree,               \* the clone: entries of the tree the revision leads to
    hidden,             \* the clone is in its changed state
    mutations,          \* how often the clone was changed underneath the run
    pc,                 \* where Snapshot stands
    err,                \* the error Snapshot returned
    provider,           \* repositoryProvider: compiled globs, whitelist
    attempt,            \* loop variable of the discrepancy loop, 0 outside it
    dryRun,             \* dryRun argument of the running snapshot() call
    walk,               \* entries the tree walker has not yielded yet
    totalCount,         \* snapshot(): totalCount
    writtenCount,       \* snapshot(): writtenCount
    totalCountDryRun,   \* Snapshot: totalCountDryRun
    snapCounts,         \* Snapshot: totalCount and writtenCount
    disk,               \* tree files below the output path: name and bytes
    markers,            \* hash markers below the output path
    indexFile,          \* the manifest: csv writer and file
    createdDirs,        \* provider.createdDirs
    statsCollector,     \* provider.statsCollector, NoStats when nil
    statsOutput,        \* the stats document written to the output path
    hist,               \* history: sleeps, resolutions, passes, mismatches
    outcomes,           \* history: entries of the running pass and their fate
    probe,              \* what a side specification studies: a filter decision, an
                        \* extension lookup, the first of two runs, or the other
                        \* of two concurrent runs
    flags,              \* the command line as ParseOptions reads it
    exitCode            \* the exit status of the process, NotExited while it runs

vars == <<opts, tree, hidden, mutations, pc, err, provider, attempt, dryRun, walk,
          totalCount, writtenCount, totalCountDryRun, snapCounts, disk, markers,
          indexFile, createdDirs, statsCollector, statsOutput, hist, outcomes,
          probe, flags, exitCode>>

\* Errors: nil, an error without a status code, or util.ErrorWithCode.
NilErr == [kind |-> "nil", code |-> 0]
PlainErr == [kind |-> "plain", code |-> 0]
ErrorWithCode(c) == [kind |-> "coded", code |-> c]

NoStats == [CountersByLanguage |-> {}, TotalFileCount |-> -1, SnapshotSizeInMb |-> 0,
            totalSizeBytes |-> 0]

NoProvider == [opts |-> <<>>, includePatterns |-> <<>>, excludePatterns |-> <<>>,
               fileListToSnap |-> {}]

NoProbe == [entry |-> [name |-> <<>>, mode |-> "Empty", hash |-> 0], reason |-> "",
            decided |-> FALSE]

Header == <<"Path", "BlobId", "IsFile">>

ClosedIndex == [open |-> FALSE, buffer |-> <<>>, exists |-> FALSE, file |-> <<>>]

(***************************************************************************)
(* Configurations.                                                         *)
(***************************************************************************)
IncludeChoices == {
    <<>>,
    << <<"d", "/", "a", ".", "*">> >>,
    << <<"*", "*", "/", "*", ".", "g", "o">> >>,
    << <<"x">>, <<"*", "/", "d">> >>,
    << <<"*", "/", "*", "*", "/", "x">>, <<"d">>, <<"*", "*", "/", "l">> >>
    }

ExcludeChoices == {
    <<>>,
    << <<"d", "/", "*", "*">> >>,
    << <<"*", "/", "*", ".", "g", "o">> >>,
    << <<"*", ".", "z", "i", "p">>, <<"?">> >>
    }

PathsFileChoices == {
    <<>>,
    << <<"xFF">> >>,
    << <<"x">>, <<"xFF">> >>,
    << <<"d", "/", "a", ".", "g", "o">> >>
    }

\* Every setting of the options the cheap filters read.
FilterSettings ==
    [IncludePatterns : IncludeChoices, ExcludePatterns : ExcludeChoices,
     PathsFileLocation : {"", "paths.csv"}, PathsFileRows : PathsFileChoices,
     IgnoreCasePatterns : BOOLEAN, TextFilesOnly : BOOLEAN]

\* The filter settings the engine is run with.
EngineFilterSettings == {
    [IncludePatterns |-> <<>>, ExcludePatterns |-> <<>>,
     PathsFileLocation |-> "", PathsFileRows |-> <<>>,
     IgnoreCasePatterns |-> FALSE, TextFilesOnly |-> FALSE],
    [IncludePatterns |-> << <<"d", "/", "a", ".", "*">> >>,
     ExcludePatterns |-> << <<"d", "/", "*", "*">> >>,
     PathsFileLocation |-> "", PathsFileRows |-> <<>>,
     IgnoreCasePatterns |-> TRUE, TextFilesOnly |-> FALSE],
    [IncludePatterns |-> <<>>,
     ExcludePatterns |-> << <<"*", "/", "*", ".", "g", "o">> >>,
     PathsFileLocation |-> "", PathsFileRows |-> <<>>,
     IgnoreCasePatterns |-> FALSE, TextFilesOnly |-> TRUE],
    [IncludePatterns |-> <<>>, ExcludePatterns |-> <<>>,
     PathsFileLocation |-> "paths.csv", PathsFileRows |-> << <<"x">>, <<"xFF">> >>,
     IgnoreCasePatterns |-> FALSE, TextFilesOnly |-> FALSE]
    }

\* The options the cheap filters do not read.  An index-only run loads no
\* blob and writes no file, so the size limit and the marker flag, which
\* only shouldWriteFile and writeFile read, stay at their defaults there.
ModeSettings ==
    {m \in [MaxFileSizeBytes : {0, 2}, SkipDoubleCheck : BOOLEAN, StatsOnly : BOOLEAN,
            IndexOnly : BOOLEAN, CreateHashMarkers : BOOLEAN,
            OptionalIndexFilePath : {"", "index.tsv"}] :
        m.IndexOnly => ~m.CreateHashMarkers /\ m.MaxFileSizeBytes = 0}

Options(f, m) ==
    [IncludePatterns |-> f.IncludePatterns, ExcludePatterns |-> f.ExcludePatterns,
     PathsFileLocation |-> f.PathsFileLocation, PathsFileRows |-> f.PathsFileRows,
     IgnoreCasePatterns |-> f.IgnoreCasePatterns, TextFilesOnly |-> f.TextFilesOnly,
     MaxFileSizeBytes |-> m.MaxFileSizeBytes, SkipDoubleCheck |-> m.SkipDoubleCheck,
     StatsOnly |-> m.StatsOnly, IndexOnly |-> m.IndexOnly,
     CreateHashMarkers |-> m.CreateHashMarkers,
     OptionalIndexFilePath |-> m.OptionalIndexFilePath,
     IncludeNoiseDirs |-> TRUE]

\* The exclude patterns Snapshot hands to compileGlobs: those of the options,
\* and in stats mode the stats exclusions after them.
excludePatterns(o) ==
    IF o.StatsOnly
    THEN o.ExcludePatterns \o getStatsExcludePatterns
    ELSE o.ExcludePatterns

\* The provider Snapshot builds from the options before it opens the clone.
NewProvider(o) ==
    [opts |-> o,
     fileListToSnap |-> loadFilePathsList(o),
     includePatterns |-> compileGlobs(o.IncludePatterns),
     excludePatterns |-> compileGlobs(excludePatterns(o))]

NoHist == [slept |-> 0, resolves |-> 0, lastResolve |-> "none", dryRuns |-> 0,
           dryAttempt |-> 0, realRuns |-> 0, mismatches |-> 0, blobError |-> "none",
           walkError |-> "none", excludePatterns |-> <<>>,
           statCalls |-> <<>>, markerFailed |-> {},
           lastWrite |-> [ends |-> "none", fs |-> "none", at |-> 0]]

\* The process has not called os.Exit.
NotExited == -1

\* The state when main starts, for a given command line and clone.
InitWith(o, t) ==
    /\ opts = o
    /\ flags = o
    /\ exitCode = NotExited
    /\ tree = t
    /\ hidden = FALSE
    /\ mutations = 0
    /\ pc = "parse"
    /\ err = NilErr
    /\ provider = NoProvider
    /\ attempt = 0
    /\ dryRun = FALSE
    /\ walk = <<>>
    /\ totalCount = 0
    /\ writtenCount = 0
    /\ totalCountDryRun = 0
    /\ snapCounts = [totalCount |-> 0, writtenCount |-> 0]
    /\ disk = {}
    /\ markers = {}
    /\ indexFile = ClosedIndex
    /\ createdDirs = {}
    /\ statsCollector = NoStats
    /\ statsOutput = NoStats
    /\ hist = NoHist
    /\ outcomes = <<>>
    /\ probe = NoProbe

Init ==
    \E f \in EngineFilterSettings, m \in ModeSettings, t \in Trees :
        InitWith(Options(f, m), t)

(***************************************************************************)
(* The clone changes underneath the run.                                   *)
(***************************************************************************)
\* The tree a walker sees: while the clone is in its changed state the last
\* entry of the tree is gone.
CurrentTree == IF hidden THEN SubSeq(tree, 1, Len(tree) - 1) ELSE tree

\* Between the dry run and the real pass of an attempt the clone is changed
\* underneath the run, once: the last entry of the tree disappears, or it
\* comes back.
MutateClone ==
    /\ pc = "pass"
    /\ attempt > 0
    /\ ~dryRun
    /\ mutations < hist.dryRuns
    /\ tree # <<>>
    /\ hidden' = ~hidden
    /\ mutations' = mutations + 1
    /\ UNCHANGED <<opts, tree, pc, err, provider, attempt, dryRun, walk, totalCount,
                   writtenCount, totalCountDryRun, snapCounts, disk, markers,
                   indexFile, createdDirs, statsCollector, statsOutput, hist,
                   outcomes, probe, flags, exitCode>>

(***************************************************************************)
(* main and ParseOptions.                                                  *)
(***************************************************************************)
\* union: s1 followed by s2, nothing removed.
union(s1, s2) ==
    IF Len(s1) = 0 THEN s2
    ELSE IF Len(s2) = 0 THEN s1
    ELSE s1 \o s2

\* What validateDirectory finds wrong first, if anything: the clone path, the
\* .git directory below it, or the output path.
DirectoryChecks == {"ok", "bad-clone", "bad-dot-git", "bad-output"}

\* The error ParseOptions returns.
ParseError(check) ==
    CASE check \in {"bad-clone", "bad-dot-git"} -> ErrorWithCode(ERROR_BAD_CLONE_PATH)
      [] check = "bad-output" -> ErrorWithCode(ERROR_BAD_OUTPUT_PATH)
      [] OTHER -> NilErr

\* Options whose noise exclusions come after the patterns of the command
\* line.
ParsedOptions_NoiseLast(f) ==
    IF ~f.IncludeNoiseDirs
    THEN [f EXCEPT !.ExcludePatterns = union(@, NoisyDirectoryExclusionPatterns)]
    ELSE f

\* The options ParseOptions returns for a command line whose directories
\* are in order.
ParsedOptions(f) ==
    IF ~f.IncludeNoiseDirs
    THEN [f EXCEPT !.ExcludePatterns = union(NoisyDirectoryExclusionPatterns, @)]
    ELSE f

\* main: options.ParseOptions, and git.Snapshot is next when it succeeds.
ParseOptions ==
    /\ pc = "parse"
    /\ \E check \in DirectoryChecks :
        IF ParseError(check) # NilErr
        THEN /\ pc' = "done"
             /\ err' = ParseError(check)
             /\ opts' = opts
        ELSE /\ pc' = "start"
             /\ err' = NilErr
             /\ opts' = ParsedOptions(flags)
    /\ UNCHANGED <<tree, hidden, mutations, provider, attempt, dryRun, walk, totalCount,
                   writtenCount, totalCountDryRun, snapCounts, disk, markers,
                   indexFile, createdDirs, statsCollector, statsOutput, hist,
                   outcomes, probe, flags, exitCode>>

\* A main that exits with 1 for every error, coded or not.
ExitStatus_AlwaysOne(e) == IF e = NilErr THEN 0 ELSE 1

\* The exit status main ends with for the error app.Run returned.
ExitStatus(e) ==
    IF e = NilErr THEN 0
    ELSE IF e.kind = "coded" THEN e.code
    ELSE 1

\* main after app.Run: os.Exit with the status of the error, or return.
Exit ==
    /\ pc = "done"
    /\ exitCode = NotExited
    /\ exitCode' = ExitStatus(err)
    /\ UNCHANGED <<opts, tree, hidden, mutations, pc, err, provider, attempt, dryRun,
                   walk, totalCount, writtenCount, totalCountDryRun, snapCounts,
                   disk, markers, indexFile, createdDirs, statsCollector,
                   statsOutput, hist, outcomes, probe, flags>>

(***************************************************************************)
(* Snapshot: opening the clone and resolving the revision.                 *)
(***************************************************************************)
\* Snapshot up to git.PlainOpen: whitelist, globs, stats collector, clone.
OpenClone ==
    /\ pc = "start"
    /\ \E pathsOk \in (IF opts.PathsFileLocation = "" THEN {TRUE} ELSE BOOLEAN),
          repoOk \in BOOLEAN :
            IF ~pathsOk
            THEN /\ pc' = "done"
                 /\ err' = PlainErr
                 /\ UNCHANGED <<provider, statsCollector, hist>>
            ELSE /\ provider' = NewProvider(opts)
                 /\ hist' = [hist EXCEPT !.excludePatterns = excludePatterns(opts)]
                 /\ statsCollector' = IF opts.StatsOnly THEN NewCodeStats ELSE NoStats
                 /\ IF repoOk
                    THEN pc' = "resolve" /\ err' = NilErr
                    ELSE pc' = "done" /\ err' = ErrorWithCode(ERROR_BAD_CLONE_GIT)
    /\ UNCHANGED <<opts, tree, hidden, mutations, attempt, dryRun, walk, totalCount,
                   writtenCount, totalCountDryRun, snapCounts, disk, markers,
                   indexFile, createdDirs, statsOutput, outcomes, probe, flags,
                   exitCode>>

\* What repository.ResolveRevision followed by repository.CommitObject can do.
GetCommitOutcomes == {"commit", "no-revision", "no-commit-object"}

\* getCommit: the error it returns.
getCommit(outcome) ==
    CASE outcome = "no-revision" -> ErrorWithCode(ERROR_NO_REVISION)
      [] outcome = "no-commit-object" -> PlainErr
      [] OTHER -> NilErr

\* A Snapshot that leaves the discrepancy loop out for skip_double_check
\* only, not for stats mode.
ResolveRevision_LoopInStatsMode ==
    /\ pc = "resolve"
    /\ \E r \in GetCommitOutcomes :
        /\ hist' = [hist EXCEPT !.resolves = @ + 1, !.lastResolve = r]
        /\ IF getCommit(r) # NilErr
           THEN /\ pc' = "done"
                /\ err' = getCommit(r)
                /\ UNCHANGED <<attempt, dryRun>>
           ELSE /\ pc' = "pass"
                /\ err' = NilErr
                /\ IF opts.SkipDoubleCheck
                   THEN attempt' = 0 /\ dryRun' = FALSE
                   ELSE attempt' = 1 /\ dryRun' = TRUE
    /\ UNCHANGED <<opts, tree, hidden, mutations, provider, walk, totalCount, writtenCount,
                   totalCountDryRun, snapCounts, disk, markers, indexFile,
                   createdDirs, statsCollector, statsOutput, outcomes, probe, flags, exitCode>>

\* The first getCommitWithValidation and the choice between one pass and
\* the discrepancy loop.
ResolveRevision ==
    /\ pc = "resolve"
    /\ \E r \in GetCommitOutcomes :
        /\ hist' = [hist EXCEPT !.resolves = @ + 1, !.lastResolve = r]
        /\ IF getCommit(r) # NilErr
           THEN /\ pc' = "done"
                /\ err' = getCommit(r)
                /\ UNCHANGED <<attempt, dryRun>>
           ELSE /\ pc' = "pass"
                /\ err' = NilErr
                /\ IF opts.SkipDoubleCheck \/ opts.StatsOnly
                   THEN attempt' = 0 /\ dryRun' = FALSE
                   ELSE attempt' = 1 /\ dryRun' = TRUE
    /\ UNCHANGED <<opts, tree, hidden, mutations, provider, walk, totalCount, writtenCount,
                   totalCountDryRun, snapCounts, disk, markers, indexFile,
                   createdDirs, statsCollector, statsOutput, outcomes, probe, flags, exitCode>>

\* A later attempt that starts at once, without the sleep.
SleepAndReacquire_NoSleep ==
    /\ pc = "retry"
    /\ attempt' = attempt + 1
    /\ \E r \in GetCommitOutcomes :
        /\ hist' = [hist EXCEPT !.resolves = @ + 1, !.lastResolve = r]
        /\ IF getCommit(r) # NilErr
           THEN pc' = "done" /\ err' = getCommit(r) /\ UNCHANGED dryRun
           ELSE pc' = "pass" /\ err' = NilErr /\ dryRun' = TRUE
    /\ UNCHANGED <<opts, tree, hidden, mutations, provider, walk, totalCount, writtenCount,
                   totalCountDryRun, snapCounts, disk, markers, indexFile,
                   createdDirs, statsCollector, statsOutput, outcomes, probe, flags, exitCode>>

\* The head of a later attempt: sleep, then getCommitWithValidation again.
SleepAndReacquire ==
    /\ pc = "retry"
    /\ attempt' = attempt + 1
    /\ \E r \in GetCommitOutcomes :
        /\ hist' = [hist EXCEPT !.slept = @ + DISCREPANCY_DELAY,
                                !.resolves = @ + 1, !.lastResolve = r]
        /\ IF getCommit(r) # NilErr
           THEN pc' = "done" /\ err' = getCommit(r) /\ UNCHANGED dryRun
           ELSE pc' = "pass" /\ err' = NilErr /\ dryRun' = TRUE
    /\ UNCHANGED <<opts, tree, hidden, mutations, provider, walk, totalCount, writtenCount,
                   totalCountDryRun, snapCounts, disk, markers, indexFile,
                   createdDirs, statsCollector, statsOutput, outcomes, probe, flags, exitCode>>

(***************************************************************************)
(* snapshot(): one pass over the tree.                                     *)
(***************************************************************************)
\* A snapshot() that opens the index file for appending instead of creating it.
StartPass_AppendsIndex ==
    LET wantIndex == opts.OptionalIndexFilePath # "" /\ ~dryRun
    IN  /\ pc = "pass"
        /\ \E treeOk \in BOOLEAN,
              createOk \in (IF wantIndex THEN BOOLEAN ELSE {TRUE}) :
                IF ~treeOk
                THEN /\ pc' = "done"
                     /\ err' = ErrorWithCode(ERROR_TREE_NOT_FOUND)
                     /\ UNCHANGED <<walk, totalCount, writtenCount, indexFile, outcomes>>
                ELSE /\ totalCount' = 0
                     /\ writtenCount' = 0
                     /\ outcomes' = <<>>
                     /\ IF ~createOk
                        THEN /\ pc' = "done"
                             /\ err' = PlainErr
                             /\ UNCHANGED <<walk, indexFile>>
                        ELSE /\ pc' = "walk"
                             /\ err' = NilErr
                             /\ walk' = CurrentTree
                             /\ indexFile' =
                                  IF wantIndex
                                  THEN [open |-> TRUE,
                                        buffer |-> indexFile.file \o <<Header>>,
                                        exists |-> TRUE, file |-> indexFile.file]
                                  ELSE [indexFile EXCEPT !.open = FALSE, !.buffer = <<>>]
        /\ UNCHANGED <<opts, tree, hidden, mutations, provider, attempt, dryRun,
                       totalCountDryRun, snapCounts, disk, markers, createdDirs,
                       statsCollector, statsOutput, hist, probe, flags, exitCode>>

\* A snapshot() that creates the index file in the dry run as well.
StartPass_IndexInDryRun ==
    LET wantIndex == opts.OptionalIndexFilePath # ""
    IN  /\ pc = "pass"
        /\ \E treeOk \in BOOLEAN,
              createOk \in (IF wantIndex THEN BOOLEAN ELSE {TRUE}) :
                IF ~treeOk
                THEN /\ pc' = "done"
                     /\ err' = ErrorWithCode(ERROR_TREE_NOT_FOUND)
                     /\ UNCHANGED <<walk, totalCount, writtenCount, indexFile, outcomes>>
                ELSE /\ totalCount' = 0
                     /\ writtenCount' = 0
                     /\ outcomes' = <<>>
                     /\ IF ~createOk
                        THEN /\ pc' = "done"
                             /\ err' = PlainErr
                             /\ UNCHANGED <<walk, indexFile>>
                        ELSE /\ pc' = "walk"
                             /\ err' = NilErr
                             /\ walk' = CurrentTree
                             /\ indexFile' =
                                  IF wantIndex
                                  THEN [open |-> TRUE, buffer |-> <<Header>>,
                                        exists |-> TRUE, file |-> <<>>]
                                  ELSE [indexFile EXCEPT !.open = FALSE, !.buffer = <<>>]
        /\ UNCHANGED <<opts, tree, hidden, mutations, provider, attempt, dryRun,
                       totalCountDryRun, snapCounts, disk, markers, createdDirs,
                       statsCollector, statsOutput, hist, probe, flags, exitCode>>

\* snapshot() up to its loop: the tree, the counters, the index file.
StartPass ==
    LET wantIndex == opts.OptionalIndexFilePath # "" /\ ~dryRun
    IN  /\ pc = "pass"
        /\ \E treeOk \in BOOLEAN,
              createOk \in (IF wantIndex THEN BOOLEAN ELSE {TRUE}) :
                IF ~treeOk
                THEN /\ pc' = "done"
                     /\ err' = ErrorWithCode(ERROR_TREE_NOT_FOUND)
                     /\ UNCHANGED <<walk, totalCount, writtenCount, indexFile, outcomes>>
                ELSE /\ totalCount' = 0
                     /\ writtenCount' = 0
                     /\ outcomes' = <<>>
                     /\ IF ~createOk
                        THEN /\ pc' = "done"
                             /\ err' = PlainErr
                             /\ UNCHANGED <<walk, indexFile>>
                        ELSE /\ pc' = "walk"
                             /\ err' = NilErr
                             /\ walk' = CurrentTree
                             /\ indexFile' =
                                  IF wantIndex
                                  THEN [open |-> TRUE, buffer |-> <<Header>>,
                                        exists |-> TRUE, file |-> <<>>]
                                  ELSE [indexFile EXCEPT !.open = FALSE, !.buffer = <<>>]
        /\ UNCHANGED <<opts, tree, hidden, mutations, provider, attempt, dryRun,
                       totalCountDryRun, snapCounts, disk, markers, createdDirs,
                       statsCollector, statsOutput, hist, probe, flags, exitCode>>

\* A fatal return out of the loop: the csv writer is dropped unflushed.
Abort(e) ==
    /\ pc' = "done"
    /\ err' = e
    /\ indexFile' = [indexFile EXCEPT !.open = FALSE, !.buffer = <<>>]

\* A loop that keeps the manifest rows in a map and writes them in the
\* order of its iteration: a row can land anywhere below the header.
Step_RowsInAnyOrder(e, fate, reachesIndex) ==
    LET row == reachesIndex /\ addEntryToIndexFile(indexFile, e.name, e) # indexFile
        added == addEntryToIndexFile(indexFile, e.name, e).buffer
    IN  /\ totalCount' = totalCount + 1
        /\ walk' = Tail(walk)
        /\ outcomes' = Append(outcomes, [entry |-> e, fate |-> fate])
        /\ \E writeOk \in (IF row THEN BOOLEAN ELSE {TRUE}) :
            IF writeOk
            THEN /\ pc' = pc
                 /\ err' = err
                 /\ IF row
                    THEN \E k \in 2..Len(added) :
                            indexFile' = [indexFile EXCEPT !.buffer =
                                SubSeq(indexFile.buffer, 1, k - 1)
                                    \o <<added[Len(added)]>>
                                    \o SubSeq(indexFile.buffer, k, Len(indexFile.buffer))]
                    ELSE indexFile' = indexFile
            ELSE Abort(PlainErr)

\* A loop that counts only the file entries.
Step_CountsFilesOnly(e, fate, reachesIndex) ==
    LET row == reachesIndex /\ addEntryToIndexFile(indexFile, e.name, e) # indexFile
    IN  /\ totalCount' = totalCount + (IF IsFile(e.mode) THEN 1 ELSE 0)
        /\ walk' = Tail(walk)
        /\ outcomes' = Append(outcomes, [entry |-> e, fate |-> fate])
        /\ \E writeOk \in (IF row THEN BOOLEAN ELSE {TRUE}) :
            IF writeOk
            THEN /\ pc' = pc
                 /\ err' = err
                 /\ indexFile' = IF reachesIndex
                                 THEN addEntryToIndexFile(indexFile, e.name, e)
                                 ELSE indexFile
            ELSE Abort(PlainErr)

\* The end of one iteration that did not return: the entry is counted, and
\* when the iteration reaches addEntryToIndexFile the manifest gets its row.
Step(e, fate, reachesIndex) ==
    LET row == reachesIndex /\ addEntryToIndexFile(indexFile, e.name, e) # indexFile
    IN  /\ totalCount' = totalCount + 1
        /\ walk' = Tail(walk)
        /\ outcomes' = Append(outcomes, [entry |-> e, fate |-> fate])
        /\ \E writeOk \in (IF row THEN BOOLEAN ELSE {TRUE}) :
            IF writeOk
            THEN /\ pc' = pc
                 /\ err' = err
                 /\ indexFile' = IF reachesIndex
                                 THEN addEntryToIndexFile(indexFile, e.name, e)
                                 ELSE indexFile
            ELSE Abort(PlainErr)

\* treeWalker.Next() returns io.EOF: flush the manifest and return the counts.
WalkEOF ==
    /\ pc = "walk"
    /\ walk = <<>>
    /\ \E flushOk \in (IF indexFile.open THEN BOOLEAN ELSE {TRUE}) :
        IF flushOk
        THEN /\ pc' = "returned"
             /\ err' = err
             /\ indexFile' = IF indexFile.open
                             THEN [open |-> FALSE, buffer |-> <<>>, exists |-> TRUE,
                                   file |-> indexFile.buffer]
                             ELSE indexFile
             /\ hist' = IF dryRun
                        THEN [hist EXCEPT !.dryRuns = @ + 1]
                        ELSE [hist EXCEPT !.realRuns = @ + 1,
                                          !.lastWrite = NoHist.lastWrite]
        ELSE Abort(PlainErr) /\ UNCHANGED hist
    /\ UNCHANGED <<opts, tree, hidden, mutations, provider, attempt, dryRun, walk, totalCount,
                   writtenCount, totalCountDryRun, snapCounts, disk, markers,
                   createdDirs, statsCollector, statsOutput, outcomes, probe, flags, exitCode>>

\* What treeWalker.Next() can fail with besides io.EOF: a sub-tree object
\* that is not in the object store, or anything else.
WalkFailures == {"object-not-found", "other"}

\* The error snapshot() returns when treeWalker.Next() failed: the same
\* fmt.Errorf for every failure.
WalkErrorReturned(kind) == PlainErr

\* treeWalker.Next() fails with an error other than io.EOF.
WalkError ==
    /\ pc = "walk"
    /\ walk # <<>>
    /\ \E kind \in WalkFailures :
        /\ Abort(WalkErrorReturned(kind))
        /\ hist' = [hist EXCEPT !.walkError = kind]
    /\ UNCHANGED <<opts, tree, hidden, mutations, provider, attempt, dryRun, walk,
                   totalCount, writtenCount, totalCountDryRun, snapCounts, disk,
                   markers, createdDirs, statsCollector, statsOutput, outcomes,
                   probe, flags, exitCode>>

\* A dry run that counts the file entries only.
DryCount_FilesOnly ==
    /\ pc = "walk"
    /\ walk # <<>>
    /\ dryRun
    /\ IF IsFile(Head(walk).mode)
       THEN Step(Head(walk), "counted", FALSE)
       ELSE /\ walk' = Tail(walk)
            /\ outcomes' = Append(outcomes, [entry |-> Head(walk), fate |-> "counted"])
            /\ UNCHANGED <<totalCount, pc, err, indexFile>>
    /\ UNCHANGED <<opts, tree, hidden, mutations, provider, attempt, dryRun, writtenCount,
                   totalCountDryRun, snapCounts, disk, markers, createdDirs,
                   statsCollector, statsOutput, hist, probe, flags, exitCode>>

\* Dry run: the entry is counted and nothing else happens.
DryCount ==
    /\ pc = "walk"
    /\ walk # <<>>
    /\ dryRun
    /\ Step(Head(walk), "counted", FALSE)
    /\ UNCHANGED <<opts, tree, hidden, mutations, provider, attempt, dryRun, writtenCount,
                   totalCountDryRun, snapCounts, disk, markers, createdDirs,
                   statsCollector, statsOutput, hist, probe, flags, exitCode>>

\* A loop that leaves the entries that are not files out of the manifest.
IndexNonFile_NoRow ==
    /\ pc = "walk"
    /\ walk # <<>>
    /\ ~dryRun
    /\ ~IsFile(Head(walk).mode)
    /\ Step(Head(walk), "not-file", FALSE)
    /\ UNCHANGED <<opts, tree, hidden, mutations, provider, attempt, dryRun, writtenCount,
                   totalCountDryRun, snapCounts, disk, markers, createdDirs,
                   statsCollector, statsOutput, hist, probe, flags, exitCode>>

\* Real pass, an entry whose mode is not a file mode: only the manifest row.
IndexNonFile ==
    /\ pc = "walk"
    /\ walk # <<>>
    /\ ~dryRun
    /\ ~IsFile(Head(walk).mode)
    /\ Step(Head(walk), "not-file", TRUE)
    /\ UNCHANGED <<opts, tree, hidden, mutations, provider, attempt, dryRun, writtenCount,
                   totalCountDryRun, snapCounts, disk, markers, createdDirs,
                   statsCollector, statsOutput, hist, probe, flags, exitCode>>

\* An index-only pass that applies the size filter as well.
IndexOnlyFile_SizeFiltered ==
    /\ pc = "walk"
    /\ walk # <<>>
    /\ ~dryRun
    /\ IsFile(Head(walk).mode)
    /\ opts.IndexOnly
    /\ IF ~shouldIncludeFile(provider, Head(walk).name, Head(walk))
       THEN Step(Head(walk), "cheap-skipped", FALSE)
       ELSE IF SizeFilterSkips(opts, BlobSize(Head(walk).hash))
       THEN Step(Head(walk), "size-skipped", FALSE)
       ELSE Step(Head(walk), "index-only", TRUE)
    /\ UNCHANGED <<opts, tree, hidden, mutations, provider, attempt, dryRun, writtenCount,
                   totalCountDryRun, snapCounts, disk, markers, createdDirs,
                   statsCollector, statsOutput, hist, probe, flags, exitCode>>

\* Real pass with indexOnly: the cheap filters decide, no blob is read.
IndexOnlyFile ==
    /\ pc = "walk"
    /\ walk # <<>>
    /\ ~dryRun
    /\ IsFile(Head(walk).mode)
    /\ opts.IndexOnly
    /\ IF shouldIncludeFile(provider, Head(walk).name, Head(walk))
       THEN Step(Head(walk), "index-only", TRUE)
       ELSE Step(Head(walk), "cheap-skipped", FALSE)
    /\ UNCHANGED <<opts, tree, hidden, mutations, provider, attempt, dryRun, writtenCount,
                   totalCountDryRun, snapCounts, disk, markers, createdDirs,
                   statsCollector, statsOutput, hist, probe, flags, exitCode>>

\* The iteration has a file entry and gets as far as shouldWriteFile.
AtFile ==
    /\ pc = "walk"
    /\ walk # <<>>
    /\ ~dryRun
    /\ IsFile(Head(walk).mode)
    /\ ~opts.IndexOnly

\* A rejected file that falls through to addEntryToIndexFile.
SkipFiltered_Indexed ==
    /\ AtFile
    /\ ~shouldIncludeFile(provider, Head(walk).name, Head(walk))
    /\ Step(Head(walk), "cheap-skipped", TRUE)
    /\ UNCHANGED <<opts, tree, hidden, mutations, provider, attempt, dryRun, writtenCount,
                   totalCountDryRun, snapCounts, disk, markers, createdDirs,
                   statsCollector, statsOutput, hist, probe, flags, exitCode>>

\* shouldWriteFile: rejected by a cheap filter.
SkipFiltered ==
    /\ AtFile
    /\ ~shouldIncludeFile(provider, Head(walk).name, Head(walk))
    /\ Step(Head(walk), "cheap-skipped", FALSE)
    /\ UNCHANGED <<opts, tree, hidden, mutations, provider, attempt, dryRun, writtenCount,
                   totalCountDryRun, snapCounts, disk, markers, createdDirs,
                   statsCollector, statsOutput, hist, probe, flags, exitCode>>

\* A missing blob that falls through to addEntryToIndexFile.
BlobNotFound_Indexed ==
    /\ AtFile
    /\ shouldIncludeFile(provider, Head(walk).name, Head(walk))
    /\ Step(Head(walk), "blob-missing", TRUE)
    /\ UNCHANGED <<opts, tree, hidden, mutations, provider, attempt, dryRun, writtenCount,
                   totalCountDryRun, snapCounts, disk, markers, createdDirs,
                   statsCollector, statsOutput, hist, probe, flags, exitCode>>

\* object.GetBlob fails with plumbing.ErrObjectNotFound: log and continue.
BlobNotFound ==
    /\ AtFile
    /\ shouldIncludeFile(provider, Head(walk).name, Head(walk))
    /\ Step(Head(walk), "blob-missing", FALSE)
    /\ UNCHANGED <<opts, tree, hidden, mutations, provider, attempt, dryRun, writtenCount,
                   totalCountDryRun, snapCounts, disk, markers, createdDirs,
                   statsCollector, statsOutput, hist, probe, flags, exitCode>>

\* A loop that wraps every blob error the same way.
BlobLoadError_AllGeneric(kind) == PlainErr

\* The error snapshot() returns for a blob error that is not object-not-found.
BlobLoadError(kind) ==
    IF kind = "packfile-not-found"
    THEN ErrorWithCode(ERROR_BAD_CLONE_GIT)
    ELSE PlainErr

\* A loop that asks for the blob of every file before it filters.
BlobLoadFails_BeforeFilters ==
    /\ AtFile
    /\ \E kind \in {"packfile-not-found", "other"} :
        /\ Abort(BlobLoadError(kind))
        /\ hist' = [hist EXCEPT !.blobError = kind]
    /\ totalCount' = totalCount + 1
    /\ UNCHANGED <<opts, tree, hidden, mutations, provider, attempt, dryRun, walk,
                   writtenCount, totalCountDryRun, snapCounts, disk, markers,
                   createdDirs, statsCollector, statsOutput, outcomes, probe, flags, exitCode>>

\* object.GetBlob fails with dotgit.ErrPackfileNotFound or any other error.
BlobLoadFails ==
    /\ AtFile
    /\ shouldIncludeFile(provider, Head(walk).name, Head(walk))
    /\ \E kind \in {"packfile-not-found", "other"} :
        /\ Abort(BlobLoadError(kind))
        /\ hist' = [hist EXCEPT !.blobError = kind]
    /\ totalCount' = totalCount + 1
    /\ UNCHANGED <<opts, tree, hidden, mutations, provider, attempt, dryRun, walk,
                   writtenCount, totalCountDryRun, snapCounts, disk, markers,
                   createdDirs, statsCollector, statsOutput, outcomes, probe, flags, exitCode>>

\* The blob was loaded and the size filter rejects it.
SkipOversize ==
    /\ AtFile
    /\ shouldIncludeFile(provider, Head(walk).name, Head(walk))
    /\ SizeFilterSkips(opts, BlobSize(Head(walk).hash))
    /\ Step(Head(walk), "size-skipped", FALSE)
    /\ UNCHANGED <<opts, tree, hidden, mutations, provider, attempt, dryRun, writtenCount,
                   totalCountDryRun, snapCounts, disk, markers, createdDirs,
                   statsCollector, statsOutput, hist, probe, flags, exitCode>>

\* countLinesOfCode returning an error.
CountFailed == -1

\* What countLinesOfCode can return for a blob: an error, or a line count.
LineCounts == {CountFailed, 0, 1}

\* processFileForStats: the collector after the file was processed.
processFileForStats(cs, name, size, counted) ==
    LET language == GetLanguageFromExtension(Ext(name))
    IN  IF language = "" THEN cs
        ELSE IF size > statsMaxFileSizeBytes THEN cs
        ELSE IF counted = CountFailed THEN cs
        ELSE AddFile(cs, language, counted, size)

\* Stats mode: the file is handed to the stats collector instead of the writer.
CollectStats ==
    /\ AtFile
    /\ shouldIncludeFile(provider, Head(walk).name, Head(walk))
    /\ ~SizeFilterSkips(opts, BlobSize(Head(walk).hash))
    /\ statsCollector # NoStats
    /\ \E counted \in LineCounts :
        statsCollector' = processFileForStats(statsCollector, Head(walk).name,
                                              BlobSize(Head(walk).hash), counted)
    /\ Step(Head(walk), "stats-counted", FALSE)
    /\ UNCHANGED <<opts, tree, hidden, mutations, provider, attempt, dryRun, writtenCount,
                   totalCountDryRun, snapCounts, disk, markers, createdDirs,
                   statsOutput, hist, probe, flags, exitCode>>

(***************************************************************************)
(* The writer.                                                             *)
(***************************************************************************)
\* What the file system can answer to os.MkdirAll and to os.OpenFile.
FsOutcomes == {"ok", "ENAMETOOLONG", "EINVAL", "other"}

\* Where writeFile ends: the step that failed, or "written".
WriteEnds == {"mkdir", "reader", "open", "copy", "close", "written"}

\* A writer that puts the file at the lowercased path.
Store_Lowercased(files, name, bytes) ==
    {f \in files : f.name # ToLower(name)} \cup {[name |-> ToLower(name), bytes |-> bytes]}

\* A writer that loses the last byte of what it is given.
Store_Truncated(files, name, bytes) ==
    {f \in files : f.name # name}
        \cup {[name |-> name, bytes |-> SubSeq(bytes, 1, Len(bytes) - 1)]}

\* The bytes a file holds after io.Copy stopped with k bytes copied.
Store(files, name, bytes) ==
    {f \in files : f.name # name} \cup {[name |-> name, bytes |-> bytes]}

\* fmt.Sprintf("%v.hash", targetFilePath)
HashMarkerPath(name) == name \o <<".", "h", "a", "s", "h">>

\* What os.WriteFile can do with a hash marker: write it, fail before the
\* file is created or truncated, or fail with the file left without content.
MarkerOutcomes == {"ok", "not-created", "incomplete"}

\* The hash markers after writeFile dealt with the marker of entry e.
WriteMarker(e, marker) ==
    IF ~opts.CreateHashMarkers \/ marker = "not-created" THEN markers
    ELSE IF marker = "ok"
         THEN Store(markers, HashMarkerPath(e.name), HashString(e.hash))
         ELSE Store(markers, HashMarkerPath(e.name), <<>>)

\* A writer that skips on name-too-long only and takes invalid-characters
\* for a fatal failure.
writeFile_InvalidIsFatal(e, ends, fs, copied, marker) ==
    LET dir == Dir(e.name)
        bytes == BlobBytes(e.hash)
        skipped == fs \in {"ENAMETOOLONG"}
        dirs == IF ends = "mkdir" /\ dir \notin createdDirs
                THEN createdDirs
                ELSE createdDirs \cup {dir}
    IN  /\ createdDirs' = dirs
        /\ CASE ends = "mkdir" /\ skipped ->
                  /\ Step(e, "write-skipped", TRUE)
                  /\ UNCHANGED <<disk, markers, writtenCount>>
             [] ends = "mkdir" /\ ~skipped ->
                  /\ Abort(PlainErr)
                  /\ totalCount' = totalCount + 1
                  /\ UNCHANGED <<disk, markers, writtenCount, walk, outcomes>>
             [] ends = "reader" ->
                  /\ Abort(PlainErr)
                  /\ totalCount' = totalCount + 1
                  /\ UNCHANGED <<disk, markers, writtenCount, walk, outcomes>>
             [] ends = "open" /\ skipped ->
                  /\ Step(e, "write-skipped", TRUE)
                  /\ UNCHANGED <<disk, markers, writtenCount>>
             [] ends = "open" /\ ~skipped ->
                  /\ Abort(PlainErr)
                  /\ totalCount' = totalCount + 1
                  /\ UNCHANGED <<disk, markers, writtenCount, walk, outcomes>>
             [] ends = "copy" ->
                  /\ Abort(PlainErr)
                  /\ totalCount' = totalCount + 1
                  /\ disk' = Store(disk, e.name, SubSeq(bytes, 1, copied))
                  /\ UNCHANGED <<markers, writtenCount, walk, outcomes>>
             [] ends = "close" ->
                  /\ Abort(PlainErr)
                  /\ totalCount' = totalCount + 1
                  /\ disk' = Store(disk, e.name, bytes)
                  /\ UNCHANGED <<markers, writtenCount, walk, outcomes>>
             [] ends = "written" ->
                  /\ disk' = Store(disk, e.name, bytes)
                  /\ markers' = WriteMarker(e, marker)
                  /\ writtenCount' = writtenCount + 1
                  /\ Step(e, "written", TRUE)

\* A writer that counts a file as written only when its marker was written.
writeFile_MarkerCounts(e, ends, fs, copied, marker) ==
    LET dir == Dir(e.name)
        bytes == BlobBytes(e.hash)
        skipped == fs \in {"ENAMETOOLONG", "EINVAL"}
        dirs == IF ends = "mkdir" /\ dir \notin createdDirs
                THEN createdDirs
                ELSE createdDirs \cup {dir}
    IN  /\ createdDirs' = dirs
        /\ CASE ends = "mkdir" /\ skipped ->
                  /\ Step(e, "write-skipped", TRUE)
                  /\ UNCHANGED <<disk, markers, writtenCount>>
             [] ends = "mkdir" /\ ~skipped ->
                  /\ Abort(PlainErr)
                  /\ totalCount' = totalCount + 1
                  /\ UNCHANGED <<disk, markers, writtenCount, walk, outcomes>>
             [] ends = "reader" ->
                  /\ Abort(PlainErr)
                  /\ totalCount' = totalCount + 1
                  /\ UNCHANGED <<disk, markers, writtenCount, walk, outcomes>>
             [] ends = "open" /\ skipped ->
                  /\ Step(e, "write-skipped", TRUE)
                  /\ UNCHANGED <<disk, markers, writtenCount>>
             [] ends = "open" /\ ~skipped ->
                  /\ Abort(PlainErr)
                  /\ totalCount' = totalCount + 1
                  /\ UNCHANGED <<disk, markers, writtenCount, walk, outcomes>>
             [] ends = "copy" ->
                  /\ Abort(PlainErr)
                  /\ totalCount' = totalCount + 1
                  /\ disk' = Store(disk, e.name, SubSeq(bytes, 1, copied))
                  /\ UNCHANGED <<markers, writtenCount, walk, outcomes>>
             [] ends = "close" ->
                  /\ Abort(PlainErr)
                  /\ totalCount' = totalCount + 1
                  /\ disk' = Store(disk, e.name, bytes)
                  /\ UNCHANGED <<markers, writtenCount, walk, outcomes>>
             [] ends = "written" ->
                  /\ disk' = Store(disk, e.name, bytes)
                  /\ markers' = WriteMarker(e, marker)
                  /\ writtenCount' = IF opts.CreateHashMarkers /\ marker # "ok"
                                     THEN writtenCount
                                     ELSE writtenCount + 1
                  /\ Step(e, "written", TRUE)


\* writeFile for the entry at the head of the walk.  `ends` is the step at
\* which it ends, `fs` the answer of the file system at that step, `copied`
\* the number of bytes io.Copy wrote before it failed, `marker` what became
\* of the hash marker.
writeFile(e, ends, fs, copied, marker) ==
    LET dir == Dir(e.name)
        bytes == BlobBytes(e.hash)
        skipped == fs \in {"ENAMETOOLONG", "EINVAL"}
        dirs == IF ends = "mkdir" /\ dir \notin createdDirs
                THEN createdDirs
                ELSE createdDirs \cup {dir}
    IN  /\ createdDirs' = dirs
        /\ CASE ends = "mkdir" /\ skipped ->
                  /\ Step(e, "write-skipped", TRUE)
                  /\ UNCHANGED <<disk, markers, writtenCount>>
             [] ends = "mkdir" /\ ~skipped ->
                  /\ Abort(PlainErr)
                  /\ totalCount' = totalCount + 1
                  /\ UNCHANGED <<disk, markers, writtenCount, walk, outcomes>>
             [] ends = "reader" ->
                  /\ Abort(PlainErr)
                  /\ totalCount' = totalCount + 1
                  /\ UNCHANGED <<disk, markers, writtenCount, walk, outcomes>>
             [] ends = "open" /\ skipped ->
                  /\ Step(e, "write-skipped", TRUE)
                  /\ UNCHANGED <<disk, markers, writtenCount>>
             [] ends = "open" /\ ~skipped ->
                  /\ Abort(PlainErr)
                  /\ totalCount' = totalCount + 1
                  /\ UNCHANGED <<disk, markers, writtenCount, walk, outcomes>>
             [] ends = "copy" ->
                  /\ Abort(PlainErr)
                  /\ totalCount' = totalCount + 1
                  /\ disk' = Store(disk, e.name, SubSeq(bytes, 1, copied))
                  /\ UNCHANGED <<markers, writtenCount, walk, outcomes>>
             [] ends = "close" ->
                  /\ Abort(PlainErr)
                  /\ totalCount' = totalCount + 1
                  /\ disk' = Store(disk, e.name, bytes)
                  /\ UNCHANGED <<markers, writtenCount, walk, outcomes>>
             [] ends = "written" ->
                  /\ disk' = Store(disk, e.name, bytes)
                  /\ markers' = WriteMarker(e, marker)
                  /\ writtenCount' = writtenCount + 1
                  /\ Step(e, "written", TRUE)

\* Normal mode: the blob was loaded, passed the size filter and is written.
WriteFile ==
    /\ AtFile
    /\ shouldIncludeFile(provider, Head(walk).name, Head(walk))
    /\ ~SizeFilterSkips(opts, BlobSize(Head(walk).hash))
    /\ statsCollector = NoStats
    /\ \E ends \in WriteEnds :
       \E fs \in (IF ends \in {"mkdir", "open"} THEN FsOutcomes \ {"ok"} ELSE {"ok"}) :
       \E copied \in (IF ends = "copy"
                      THEN 0..(BlobSize(Head(walk).hash) - 1) \cup {0}
                      ELSE {0}) :
       \E marker \in (IF ends = "written" /\ opts.CreateHashMarkers
                      THEN MarkerOutcomes ELSE {"ok"}) :
            /\ (ends = "mkdir" => Dir(Head(walk).name) \notin createdDirs)
            /\ writeFile(Head(walk), ends, fs, copied, marker)
            /\ hist' = [hist EXCEPT
                            !.lastWrite = [ends |-> ends, fs |-> fs,
                                           at |-> totalCount + 1],
                            !.markerFailed =
                                IF ends = "written" /\ opts.CreateHashMarkers
                                THEN IF marker = "ok"
                                     THEN @ \ {Head(walk).name}
                                     ELSE @ \cup {Head(walk).name}
                                ELSE @]
    /\ UNCHANGED <<opts, tree, hidden, mutations, provider, attempt, dryRun,
                   totalCountDryRun, snapCounts, statsCollector, statsOutput,
                   probe, flags, exitCode>>

(***************************************************************************)
(* Snapshot: after a pass.                                                 *)
(***************************************************************************)
\* skip_double_check or stats mode: the single pass returned.
AfterSinglePass ==
    /\ pc = "returned"
    /\ attempt = 0
    /\ snapCounts' = [totalCount |-> totalCount, writtenCount |-> writtenCount]
    /\ pc' = "finish"
    /\ UNCHANGED <<opts, tree, hidden, mutations, err, provider, attempt, dryRun, walk,
                   totalCount, writtenCount, totalCountDryRun, disk, markers,
                   indexFile, createdDirs, statsCollector, statsOutput, hist,
                   outcomes, probe, flags, exitCode>>

\* Discrepancy loop: the dry run returned, the real pass is next.
AfterDryRun ==
    /\ pc = "returned"
    /\ attempt > 0
    /\ dryRun
    /\ totalCountDryRun' = totalCount
    /\ hist' = [hist EXCEPT !.dryAttempt = attempt]
    /\ dryRun' = FALSE
    /\ pc' = "pass"
    /\ UNCHANGED <<opts, tree, hidden, mutations, err, provider, attempt, walk, totalCount,
                   writtenCount, snapCounts, disk, markers, indexFile, createdDirs,
                   statsCollector, statsOutput, outcomes, probe, flags, exitCode>>

\* The real pass of an attempt returned.
RealPassReturned ==
    /\ pc = "returned"
    /\ attempt > 0
    /\ ~dryRun

\* A loop that breaks without comparing the two counts.
AcceptAttempt_AnyCount ==
    /\ RealPassReturned
    /\ snapCounts' = [totalCount |-> totalCount, writtenCount |-> writtenCount]
    /\ pc' = "finish"
    /\ UNCHANGED <<opts, tree, hidden, mutations, err, provider, attempt, dryRun, walk,
                   totalCount, writtenCount, totalCountDryRun, disk, markers,
                   indexFile, createdDirs, statsCollector, statsOutput, hist,
                   outcomes, probe, flags, exitCode>>

\* totalCount == totalCountDryRun: break.
AcceptAttempt ==
    /\ RealPassReturned
    /\ totalCount = totalCountDryRun
    /\ snapCounts' = [totalCount |-> totalCount, writtenCount |-> writtenCount]
    /\ pc' = "finish"
    /\ UNCHANGED <<opts, tree, hidden, mutations, err, provider, attempt, dryRun, walk,
                   totalCount, writtenCount, totalCountDryRun, disk, markers,
                   indexFile, createdDirs, statsCollector, statsOutput, hist,
                   outcomes, probe, flags, exitCode>>

\* A discrepancy before the last attempt: go round the loop again.
RetryAttempt ==
    /\ RealPassReturned
    /\ totalCount # totalCountDryRun
    /\ attempt # DISCREPANCY_ATTEMPTS
    /\ snapCounts' = [totalCount |-> totalCount, writtenCount |-> writtenCount]
    /\ hist' = [hist EXCEPT !.mismatches = @ + 1]
    /\ pc' = "retry"
    /\ UNCHANGED <<opts, tree, hidden, mutations, err, provider, attempt, dryRun, walk,
                   totalCount, writtenCount, totalCountDryRun, disk, markers,
                   indexFile, createdDirs, statsCollector, statsOutput, outcomes,
                   probe, flags, exitCode>>

\* A discrepancy in the last attempt: files-discrepancy.
FailDiscrepancy ==
    /\ RealPassReturned
    /\ totalCount # totalCountDryRun
    /\ attempt = DISCREPANCY_ATTEMPTS
    /\ snapCounts' = [totalCount |-> totalCount, writtenCount |-> writtenCount]
    /\ hist' = [hist EXCEPT !.mismatches = @ + 1]
    /\ pc' = "done"
    /\ err' = ErrorWithCode(ERROR_FILES_DISCREPANCY)
    /\ UNCHANGED <<opts, tree, hidden, mutations, provider, attempt, dryRun, walk,
                   totalCount, writtenCount, totalCountDryRun, disk, markers,
                   indexFile, createdDirs, statsCollector, statsOutput, outcomes,
                   probe, flags, exitCode>>

\* writeStatsOutput: the collector is finalized and its JSON form is written
\* to the output path, unless os.WriteFile fails.
writeStatsOutput(writeOk) ==
    /\ statsCollector' = Finalize(statsCollector)
    /\ statsOutput' = IF writeOk THEN Finalize(statsCollector) ELSE statsOutput
    /\ err' = IF writeOk THEN NilErr ELSE PlainErr

\* The end of Snapshot: the stats document in stats mode, else the log line.
Finish ==
    /\ pc = "finish"
    /\ pc' = "done"
    /\ IF opts.StatsOnly
       THEN \E writeOk \in BOOLEAN : writeStatsOutput(writeOk)
       ELSE /\ err' = NilErr
            /\ UNCHANGED <<statsCollector, statsOutput>>
    /\ UNCHANGED <<opts, tree, hidden, mutations, provider, attempt, dryRun, walk, totalCount,
                   writtenCount, totalCountDryRun, snapCounts, disk, markers,
                   indexFile, createdDirs, hist, outcomes, probe, flags, exitCode>>

Next ==
    \/ ParseOptions
    \/ Exit
    \/ MutateClone
    \/ OpenClone
    \/ ResolveRevision
    \/ SleepAndReacquire
    \/ StartPass
    \/ WalkEOF
    \/ WalkError
    \/ DryCount
    \/ IndexNonFile
    \/ IndexOnlyFile
    \/ SkipFiltered
    \/ BlobNotFound
    \/ BlobLoadFails
    \/ SkipOversize
    \/ CollectStats
    \/ WriteFile
    \/ AfterSinglePass
    \/ AfterDryRun
    \/ AcceptAttempt
    \/ RetryAttempt
    \/ FailDiscrepancy
    \/ Finish

Spec == Init /\ [][Next]_vars

TypeOK ==
    /\ pc \in {"parse", "start", "resolve", "pass", "walk", "returned", "retry", "finish", "done"}
    /\ attempt \in 0..DISCREPANCY_ATTEMPTS
    /\ totalCount \in 0..MaxEntries
    /\ writtenCount \in 0..MaxEntries

(***************************************************************************)
(* The cheap filters as a function of the options and the entry.           *)
(***************************************************************************)
\* The entries the filter is probed with: those of the trees, and some more.
ProbeEntries ==
    Range(Universe) \cup {
        [name |-> <<"A", ".", "g", "o">>, mode |-> "Regular", hash |-> 1],
        [name |-> <<"d", "/", "d", "/", "x">>, mode |-> "Deprecated", hash |-> 6],
        [name |-> <<"x", ".", "Z", "I", "P">>, mode |-> "Regular", hash |-> 2],
        [name |-> <<"d", "/", "LONG">>, mode |-> "Regular", hash |-> 6],
        [name |-> <<"e">>, mode |-> "Empty", hash |-> 0]
    }

\* The options that play no part in the cheap filters, at their defaults.
DefaultMode ==
    [MaxFileSizeBytes |-> 0, SkipDoubleCheck |-> FALSE, StatsOnly |-> FALSE,
     IndexOnly |-> FALSE, CreateHashMarkers |-> FALSE, OptionalIndexFilePath |-> ""]

InitFilter ==
    \E f \in FilterSettings :
        /\ opts = Options(f, DefaultMode)
        /\ provider = NewProvider(Options(f, DefaultMode))
        /\ probe = NoProbe
        /\ flags = Options(f, DefaultMode)
        /\ exitCode = NotExited
        /\ pc = "filter"
        /\ tree = <<>>
        /\ hidden = FALSE
        /\ mutations = 0
        /\ err = NilErr
        /\ attempt = 0
        /\ dryRun = FALSE
        /\ walk = <<>>
        /\ totalCount = 0
        /\ writtenCount = 0
        /\ totalCountDryRun = 0
        /\ snapCounts = [totalCount |-> 0, writtenCount |-> 0]
        /\ disk = {}
        /\ markers = {}
        /\ indexFile = ClosedIndex
        /\ createdDirs = {}
        /\ statsCollector = NoStats
        /\ statsOutput = NoStats
        /\ hist = NoHist
        /\ outcomes = <<>>

\* shouldIncludeFile is called for one entry.
Decide ==
    /\ pc = "filter"
    /\ ~probe.decided
    /\ \E e \in ProbeEntries :
        probe' = [entry |-> e, reason |-> SkipReason(provider, e.name, e),
                  decided |-> TRUE]
    /\ UNCHANGED <<opts, tree, hidden, mutations, pc, err, provider, attempt, dryRun,
                   walk, totalCount, writtenCount, totalCountDryRun, snapCounts,
                   disk, markers, indexFile, createdDirs, statsCollector,
                   statsOutput, hist, outcomes, flags, exitCode>>

NextFilter == Decide

SpecFilter == InitFilter /\ [][NextFilter]_vars

(***************************************************************************)
(* The language lookup of the stats collector, called on its own for every *)
(* extension of the table and for extensions outside it, once as           *)
(* filepath.Ext returns it (with the dot) and once without the dot.        *)
(***************************************************************************)

\* Every extension of languageToExtensions.
TableExtensions == UNION {l.extensions : l \in languageToExtensions}

\* Extensions that no list holds: the empty one, the unknown ones of
\* TestGetLanguageFromExtension, known ones in another case, and a prefix and
\* an extension of known ones. filepath.Ext returns the text from the last
\* dot on, so the part after the dot never holds a dot itself.
OtherExtensions ==
    {<<>>, <<"t","x","t">>, <<"m","d">>, <<"j","s","o","n">>, <<"y","a","m","l">>,
     <<"G","o">>, <<"J","A","V","A">>, <<"g">>, <<"g","o","o">>, <<"P","y">>}

LookupInputs == TableExtensions \cup OtherExtensions

InitLanguage ==
    \E ext \in LookupInputs :
        /\ probe = [ext |-> ext, withDot |-> "", withoutDot |-> "", looked |-> FALSE]
        /\ pc = "language"
        /\ opts = Options(CHOOSE f \in FilterSettings : TRUE, DefaultMode)
        /\ flags = opts
        /\ provider = NoProvider
        /\ exitCode = NotExited
        /\ tree = <<>>
        /\ hidden = FALSE
        /\ mutations = 0
        /\ err = NilErr
        /\ attempt = 0
        /\ dryRun = FALSE
        /\ walk = <<>>
        /\ totalCount = 0
        /\ writtenCount = 0
        /\ totalCountDryRun = 0
        /\ snapCounts = [totalCount |-> 0, writtenCount |-> 0]
        /\ disk = {}
        /\ markers = {}
        /\ indexFile = ClosedIndex
        /\ createdDirs = {}
        /\ statsCollector = NoStats
        /\ statsOutput = NoStats
        /\ hist = NoHist
        /\ outcomes = <<>>

\* GetLanguageFromExtension is called with the dotted and the bare extension.
LookupLanguage ==
    /\ pc = "language"
    /\ ~probe.looked
    /\ probe' = [probe EXCEPT !.withDot = GetLanguageFromExtension(<<".">> \o probe.ext),
                              !.withoutDot = GetLanguageFromExtension(probe.ext),
                              !.looked = TRUE]
    /\ UNCHANGED <<opts, tree, hidden, mutations, pc, err, provider, attempt, dryRun,
                   walk, totalCount, writtenCount, totalCountDryRun, snapCounts,
                   disk, markers, indexFile, createdDirs, statsCollector,
                   statsOutput, hist, outcomes, flags, exitCode>>

NextLanguage == LookupLanguage

SpecLanguage == InitLanguage /\ [][NextLanguage]_vars

(***************************************************************************)
(* main up to the opening of the clone, for every setting of the noise and *)
(* stats flags.                                                            *)
(***************************************************************************)
InitOptions ==
    \E f \in FilterSettings, noise \in BOOLEAN, stats \in BOOLEAN :
        InitWith([Options(f, [DefaultMode EXCEPT !.StatsOnly = stats])
                     EXCEPT !.IncludeNoiseDirs = noise], <<>>)

NextOptions == ParseOptions \/ OpenClone \/ Exit

SpecOptions == InitOptions /\ [][NextOptions]_vars

(***************************************************************************)
(* The stats collector over files of realistic sizes.                      *)
(***************************************************************************)
MaxStatCalls == 2

MiB == 1024 * 1024

\* The files the stats branch is given: two with a language, one without,
\* one under a directory the stats exclusions name.
StatEntries == {
    [name |-> <<"a", ".", "g", "o">>, mode |-> "Regular", hash |-> 1],
    [name |-> <<"b", ".", "p", "y">>, mode |-> "Executable", hash |-> 2],
    [name |-> <<"c", ".", "t", "x", "t">>, mode |-> "Regular", hash |-> 3],
    [name |-> <<"l", "/", "t", "e", "s", "t", "s", "/", "d", ".", "g", "o">>,
     mode |-> "Regular", hash |-> 4]
    }

\* The sizes of their blobs.
StatSizes ==
    {MiB \div 2 - 1, MiB \div 2, statsMaxFileSizeBytes, statsMaxFileSizeBytes + 1,
     8 * MiB}

StatsOptions ==
    [Options(CHOOSE f \in EngineFilterSettings :
                 f.ExcludePatterns = <<>> /\ f.PathsFileLocation = "",
             [DefaultMode EXCEPT !.StatsOnly = TRUE])
        EXCEPT !.MaxFileSizeBytes = 8 * MiB]

InitStats ==
    /\ opts = StatsOptions
    /\ flags = StatsOptions
    /\ provider = NewProvider(StatsOptions)
    /\ statsCollector = NewCodeStats
    /\ pc = "stats"
    /\ exitCode = NotExited
    /\ probe = NoProbe
    /\ tree = <<>>
    /\ hidden = FALSE
    /\ mutations = 0
    /\ err = NilErr
    /\ attempt = 0
    /\ dryRun = FALSE
    /\ walk = <<>>
    /\ totalCount = 0
    /\ writtenCount = 0
    /\ totalCountDryRun = 0
    /\ snapCounts = [totalCount |-> 0, writtenCount |-> 0]
    /\ disk = {}
    /\ markers = {}
    /\ indexFile = ClosedIndex
    /\ createdDirs = {}
    /\ statsOutput = NoStats
    /\ hist = NoHist
    /\ outcomes = <<>>

\* The body of the walk for one file in stats mode: shouldWriteFile, then
\* processFileForStats for a file that passed.
StatsFile ==
    /\ pc = "stats"
    /\ Len(hist.statCalls) < MaxStatCalls
    /\ \E e \in StatEntries :
        \E kept \in {shouldIncludeFile(provider, e.name, e)} :
            \E size \in StatSizes, counted \in {CountFailed, 1} :
              LET shouldWrite == kept /\ ~SizeFilterSkips(opts, size)
              IN  /\ statsCollector' =
                        IF shouldWrite
                        THEN processFileForStats(statsCollector, e.name, size, counted)
                        ELSE statsCollector
                  /\ hist' = [hist EXCEPT !.statCalls =
                                Append(@, [name |-> e.name, size |-> size,
                                           counted |-> counted,
                                           shouldWrite |-> shouldWrite])]
    /\ UNCHANGED <<opts, tree, hidden, mutations, pc, err, provider, attempt, dryRun,
                   walk, totalCount, writtenCount, totalCountDryRun, snapCounts,
                   disk, markers, indexFile, createdDirs, statsOutput, outcomes,
                   probe, flags, exitCode>>

\* The walk is over: Snapshot ends with writeStatsOutput.
WriteStats ==
    /\ pc = "stats"
    /\ pc' = "done"
    /\ \E writeOk \in BOOLEAN : writeStatsOutput(writeOk)
    /\ UNCHANGED <<opts, tree, hidden, mutations, provider, attempt, dryRun, walk,
                   totalCount, writtenCount, totalCountDryRun, snapCounts, disk,
                   markers, indexFile, createdDirs, hist, outcomes, probe, flags,
                   exitCode>>

NextStats == StatsFile \/ WriteStats

SpecStats == InitStats /\ [][NextStats]_vars

(***************************************************************************)
(* Two consecutive runs of the program with the same command line against  *)
(* a clone that does not change, the second one started after the first    *)
(* has exited and the output directory has been emptied.                   *)
(***************************************************************************)
\* The command lines that write a snapshot (the stats mode writes no files).
InitTwice ==
    \E f \in EngineFilterSettings, m \in {x \in ModeSettings : ~x.StatsOnly}, t \in Trees :
        InitWith(Options(f, m), t)

\* What the first run left behind, kept for the comparison with the second:
\* its files, its hash markers, its index file, what became of every entry,
\* and the files whose hash marker was not written.
FirstRun ==
    [disk |-> disk, markers |-> markers, indexFile |-> indexFile,
     outcomes |-> outcomes, markerFailed |-> hist.markerFailed]

\* The first process has exited with status 0; the output directory is
\* emptied (the index file, which may lie outside it, stays) and main starts
\* again with the same command line. Nothing of the first process survives.
RunAgain ==
    /\ pc = "done"
    /\ exitCode = 0
    /\ ~probe.decided
    /\ probe' = [entry |-> NoProbe.entry, reason |-> "", decided |-> TRUE,
                 first |-> FirstRun]
    /\ opts' = flags
    /\ exitCode' = NotExited
    /\ pc' = "parse"
    /\ err' = NilErr
    /\ provider' = NoProvider
    /\ attempt' = 0
    /\ dryRun' = FALSE
    /\ walk' = <<>>
    /\ totalCount' = 0
    /\ writtenCount' = 0
    /\ totalCountDryRun' = 0
    /\ snapCounts' = [totalCount |-> 0, writtenCount |-> 0]
    /\ disk' = {}
    /\ markers' = {}
    /\ createdDirs' = {}
    /\ statsCollector' = NoStats
    /\ statsOutput' = NoStats
    /\ hist' = NoHist
    /\ outcomes' = <<>>
    /\ UNCHANGED <<tree, hidden, mutations, indexFile, flags>>

NextTwice ==
    \/ ParseOptions
    \/ Exit
    \/ RunAgain
    \/ OpenClone
    \/ ResolveRevision
    \/ StartPass
    \/ WalkEOF
    \/ WalkError
    \/ DryCount
    \/ IndexNonFile
    \/ IndexOnlyFile
    \/ SkipFiltered
    \/ BlobNotFound
    \/ BlobLoadFails
    \/ SkipOversize
    \/ WriteFile
    \/ AfterSinglePass
    \/ AfterDryRun
    \/ AcceptAttempt
    \/ Finish

SpecTwice == InitTwice /\ [][NextTwice]_vars

(***************************************************************************)
(* Two calls of Snapshot running concurrently against the same clone and   *)
(* revision, each with its own options and its own output path, as in      *)
(* TestSnapshotForRegularCommitMultipleTimesAndConcurrently. The variables *)
(* of the engine hold the call that is running; probe.other holds the call *)
(* that is waiting and probe.files the file system outside the output path *)
(* of the running call.                                                    *)
(***************************************************************************)
\* The output paths of the two calls: neither lies inside the other.
OutputPaths == << <<"o", "1">>, <<"o", "2">> >>

\* A writer that ignores the output path.
TargetPath_IgnoresOutputPath(outputPath, filePath) == filePath

\* writeFile: filepath.Join(outputPath, filePath)
TargetPath(outputPath, filePath) == outputPath \o <<"/">> \o filePath

\* The files of a call at the places they have in the file system.
Placed(outputPath, files) ==
    {[name |-> TargetPath(outputPath, f.name), bytes |-> f.bytes] : f \in files}

\* The files of the file system that lie at the target path of a tree path
\* under the output path, under their tree paths.
Under(outputPath, files) ==
    UNION {{[name |-> n, bytes |-> f.bytes] :
                n \in {m \in {tree[i].name : i \in 1..Len(tree)} :
                            TargetPath(outputPath, m) = f.name}} : f \in files}

\* Everything a call of Snapshot keeps: the provider it allocates, the local
\* variables of Snapshot and of snapshot(), and its place in the code.
Registers ==
    [opts |-> opts, flags |-> flags, pc |-> pc, err |-> err, provider |-> provider,
     attempt |-> attempt, dryRun |-> dryRun, walk |-> walk, totalCount |-> totalCount,
     writtenCount |-> writtenCount, totalCountDryRun |-> totalCountDryRun,
     snapCounts |-> snapCounts, createdDirs |-> createdDirs, hist |-> hist,
     outcomes |-> outcomes]

\* A call of Snapshot that has not started: provider := &repositoryProvider{...}
NewCall(o) ==
    [opts |-> o, flags |-> o, pc |-> "start", err |-> NilErr, provider |-> NoProvider,
     attempt |-> 0, dryRun |-> FALSE, walk |-> <<>>, totalCount |-> 0,
     writtenCount |-> 0, totalCountDryRun |-> 0,
     snapCounts |-> [totalCount |-> 0, writtenCount |-> 0], createdDirs |-> {},
     hist |-> NoHist, outcomes |-> <<>>]

\* The options of the test, with a size limit the blobs of the model reach.
ConcurrentMode == [DefaultMode EXCEPT !.MaxFileSizeBytes = 2]

\* The filters of the test (none) and one setting that excludes files.
ConcurrentFilterSettings ==
    {f \in EngineFilterSettings : f.PathsFileLocation = "" /\ ~f.IgnoreCasePatterns}

InitConcurrent ==
    \E f1 \in ConcurrentFilterSettings, f2 \in ConcurrentFilterSettings, t \in Trees :
        /\ opts = Options(f1, ConcurrentMode)
        /\ flags = Options(f1, ConcurrentMode)
        /\ probe = [entry |-> NoProbe.entry, reason |-> "", decided |-> FALSE,
                    active |-> 1, other |-> NewCall(Options(f2, ConcurrentMode)),
                    files |-> {}]
        /\ tree = t
        /\ pc = "start"
        /\ exitCode = NotExited
        /\ hidden = FALSE
        /\ mutations = 0
        /\ err = NilErr
        /\ provider = NoProvider
        /\ attempt = 0
        /\ dryRun = FALSE
        /\ walk = <<>>
        /\ totalCount = 0
        /\ writtenCount = 0
        /\ totalCountDryRun = 0
        /\ snapCounts = [totalCount |-> 0, writtenCount |-> 0]
        /\ disk = {}
        /\ markers = {}
        /\ indexFile = ClosedIndex
        /\ createdDirs = {}
        /\ statsCollector = NoStats
        /\ statsOutput = NoStats
        /\ hist = NoHist
        /\ outcomes = <<>>

\* The scheduler takes the running call off and puts the waiting one on. The
\* files under the output path of the call that comes on are the ones it
\* sees; its provider and its local variables are its own.
Switch ==
    /\ probe.other.pc # "done"
    /\ LET all == probe.files \cup Placed(OutputPaths[probe.active], disk)
           next == 3 - probe.active
           seen == Under(OutputPaths[next], all)
       IN  /\ disk' = seen
           /\ probe' = [probe EXCEPT !.active = next, !.other = Registers,
                                     !.files = all \ Placed(OutputPaths[next], seen)]
    /\ opts' = probe.other.opts
    /\ flags' = probe.other.flags
    /\ pc' = probe.other.pc
    /\ err' = probe.other.err
    /\ provider' = probe.other.provider
    /\ attempt' = probe.other.attempt
    /\ dryRun' = probe.other.dryRun
    /\ walk' = probe.other.walk
    /\ totalCount' = probe.other.totalCount
    /\ writtenCount' = probe.other.writtenCount
    /\ totalCountDryRun' = probe.other.totalCountDryRun
    /\ snapCounts' = probe.other.snapCounts
    /\ createdDirs' = probe.other.createdDirs
    /\ hist' = probe.other.hist
    /\ outcomes' = probe.other.outcomes
    /\ UNCHANGED <<tree, hidden, mutations, markers, indexFile, statsCollector,
                   statsOutput, exitCode>>

NextConcurrent ==
    \/ Switch
    \/ OpenClone
    \/ ResolveRevision
    \/ StartPass
    \/ WalkEOF
    \/ WalkError
    \/ DryCount
    \/ IndexNonFile
    \/ SkipFiltered
    \/ BlobNotFound
    \/ BlobLoadFails
    \/ SkipOversize
    \/ WriteFile
    \/ AfterDryRun
    \/ AcceptAttempt
    \/ Finish

SpecConcurrent == InitConcurrent /\ [][NextConcurrent]_vars

(***************************************************************************)
(* Properties.                                                             *)
(***************************************************************************)
\* The path the patterns of the probed entry are matched against.
ProbePath == IF opts.IgnoreCasePatterns THEN ToLower(probe.entry.name)
                                        ELSE probe.entry.name

\* Some pattern of the expanded list matches the path.
AnyMatches(patterns, path) ==
    \E i \in 1..Len(expandPatternsIfNeeded(patterns)) :
        GlobMatch(expandPatternsIfNeeded(patterns)[i], path)

\* The probed entry got as far as the include/exclude stage.
ProbeAtGlobStage ==
    /\ probe.decided
    /\ probe.reason \notin {"not regular file", "file path is not a valid UTF-8 string",
                            "not matching file list"}

\* C1: for every path that reaches the include/exclude stage: it is rejected
\* for the include list exactly when that list is non-empty and none of its
\* patterns matches; it is rejected for an exclude match only when the include
\* list is empty; and a path that matches a pattern of a non-empty include list
\* passes the stage even when an exclude pattern matches it too.
C1_GlobDecision ==
    ProbeAtGlobStage =>
        LET hasInc == Len(opts.IncludePatterns) > 0
            incMatch == AnyMatches(opts.IncludePatterns, ProbePath)
            excMatch == AnyMatches(opts.ExcludePatterns, ProbePath)
        IN  /\ (probe.reason = "not matching include patterns") <=> (hasInc /\ ~incMatch)
            /\ (probe.reason = "matching exclude patterns") => (~hasInc /\ excMatch)
            /\ (hasInc /\ incMatch) =>
                    probe.reason \notin {"not matching include patterns",
                                         "matching exclude patterns"}

\* C1 witness: a path matched by an include and by an exclude pattern was kept.
C1_Witness ==
    /\ ProbeAtGlobStage
    /\ Len(opts.IncludePatterns) > 0
    /\ AnyMatches(opts.IncludePatterns, ProbePath)
    /\ AnyMatches(opts.ExcludePatterns, ProbePath)
    /\ probe.reason = ""

\* Snapshot runs the discrepancy loop.
LoopMode == ~opts.SkipDoubleCheck /\ ~opts.StatsOnly

\* Snapshot returned nil.
Succeeded == pc = "done" /\ err = NilErr

\* C2: with skip_double_check and stats_only both off, a run that returned
\* success ended in an attempt that was accepted: the total the real pass of
\* that attempt counted equals the total the dry run of the same attempt
\* counted, every earlier attempt was a mismatch, and no run in which every
\* attempt was a mismatch returned success.
C2_SuccessMeansMatch ==
    (LoopMode /\ Succeeded) =>
        /\ attempt \in 1..DISCREPANCY_ATTEMPTS
        /\ hist.dryAttempt = attempt
        /\ hist.dryRuns = attempt
        /\ hist.realRuns = attempt
        /\ totalCount = totalCountDryRun
        /\ snapCounts.totalCount = totalCountDryRun
        /\ Len(outcomes) = totalCountDryRun
        /\ hist.mismatches = attempt - 1

\* C2 witness: a run that returned success in its second attempt, after the
\* clone had changed under the first.
C2_Witness ==
    /\ LoopMode
    /\ Succeeded
    /\ attempt = 2
    /\ hist.mismatches = 1
    /\ totalCount = totalCountDryRun
    /\ totalCount > 0

\* C3: the loop makes at most three attempts, each one dry run followed by
\* one real pass; before attempts two and three, and never before the first,
\* it sleeps three seconds and resolves the revision again; it goes on to a
\* further attempt only after a mismatch, and it fails with files-discrepancy
\* exactly when all three attempts were mismatches.
C3_DiscrepancyLoop ==
    /\ attempt <= DISCREPANCY_ATTEMPTS
    /\ hist.mismatches <= DISCREPANCY_ATTEMPTS
    /\ (err = ErrorWithCode(ERROR_FILES_DISCREPANCY))
            <=> (hist.mismatches = DISCREPANCY_ATTEMPTS)
    /\ (LoopMode /\ attempt >= 1) =>
            /\ hist.slept = DISCREPANCY_DELAY * (attempt - 1)
            /\ hist.resolves = attempt
            /\ hist.dryRuns <= attempt
            /\ hist.realRuns <= hist.dryRuns
            /\ hist.dryRuns >= attempt - 1
            /\ hist.realRuns >= attempt - 1
            /\ hist.mismatches \in {attempt - 1, attempt}
            /\ (hist.mismatches = attempt) =>
                    /\ hist.realRuns = attempt
                    /\ \/ pc = "retry"
                       \/ pc = "done" /\ attempt = DISCREPANCY_ATTEMPTS
            /\ (pc \in {"retry", "finish"}) =>
                    hist.dryRuns = attempt /\ hist.realRuns = attempt
            /\ (pc = "finish") => hist.mismatches = attempt - 1
    /\ (~LoopMode) => attempt = 0 /\ hist.slept = 0 /\ hist.mismatches = 0

\* C3 witness: three attempts, two sleeps, three mismatches, files-discrepancy.
C3_Witness ==
    /\ pc = "done"
    /\ err = ErrorWithCode(ERROR_FILES_DISCREPANCY)
    /\ attempt = DISCREPANCY_ATTEMPTS
    /\ hist.slept = 2 * DISCREPANCY_DELAY
    /\ hist.resolves = 3
    /\ hist.dryRuns = 3
    /\ hist.realRuns = 3

\* A real pass with an index path returned, and no pass has started since:
\* the manifest on disk is the one that pass wrote.
ManifestWritten ==
    /\ opts.OptionalIndexFilePath # ""
    /\ ~dryRun
    /\ \/ pc \in {"returned", "finish", "retry"}
       \/ pc = "done" /\ err \in {NilErr, ErrorWithCode(ERROR_FILES_DISCREPANCY)}

\* The path is one addEntryToIndexFile accepts.
IndexablePath(name) == ValidUTF8(name) /\ ~ContainsLineBreak(name)

\* The record of the manifest for a tree entry.
RowOf(e) == <<e.name, HashString(e.hash), FormatBool(IsFile(e.mode))>>

\* The iteration of an entry with this fate reached addEntryToIndexFile.
IndexedFates == {"not-file", "index-only", "write-skipped", "written"}

\* The entries of the pass that have a row, in the order of the walk.
IndexedOutcomes ==
    SelectSeq(outcomes,
              LAMBDA o : o.fate \in IndexedFates /\ IndexablePath(o.entry.name))

\* The fate of every entry of the pass agrees with its mode and the filters.
FatesAgree ==
    \A i \in 1..Len(outcomes) :
        LET e == outcomes[i].entry
            fate == outcomes[i].fate
            kept == shouldIncludeFile(provider, e.name, e)
        IN  /\ (fate = "not-file") <=> ~IsFile(e.mode)
            /\ (fate = "cheap-skipped") <=> (IsFile(e.mode) /\ ~kept)
            /\ (fate = "index-only") <=> (IsFile(e.mode) /\ kept /\ opts.IndexOnly)
            /\ (fate = "size-skipped") =>
                    SizeFilterSkips(opts, BlobSize(e.hash)) /\ ~opts.IndexOnly
            /\ (fate \in {"blob-missing", "size-skipped", "written", "write-skipped",
                          "stats-counted"}) =>
                    IsFile(e.mode) /\ kept /\ ~opts.IndexOnly
            /\ (fate \in {"written", "write-skipped", "stats-counted"}) =>
                    ~SizeFilterSkips(opts, BlobSize(e.hash))
            /\ (fate = "stats-counted") => opts.StatsOnly
            /\ (fate \in {"written", "write-skipped"}) => ~opts.StatsOnly

WriteModeWithIndex == ~opts.IndexOnly /\ ~opts.StatsOnly /\ ManifestWritten

\* The manifest has a row for this entry.
HasRow(e) == \E j \in 2..Len(indexFile.file) : indexFile.file[j] = RowOf(e)

\* A file entry that passed the filters: the cheap ones and the size filter.
PassedFilters(o) ==
    /\ IsFile(o.entry.mode)
    /\ shouldIncludeFile(provider, o.entry.name, o.entry)
    /\ o.fate \notin {"blob-missing", "size-skipped"}

\* The positions in the pass of the entries that are not files.
NonFilePositions == {i \in 1..Len(outcomes) : ~IsFile(outcomes[i].entry.mode)}

\* The positions in the pass of the files that passed the filters.
PassedPositions == {i \in 1..Len(outcomes) : PassedFilters(outcomes[i])}

\* The positions in the pass of the entries whose path the manifest accepts.
IndexablePositions ==
    {i \in 1..Len(outcomes) : IndexablePath(outcomes[i].entry.name)}

\* C5 as stated: the number of data rows is the number of entries that are
\* not files plus the number of files that passed the filters and whose blob
\* was there.
C5_RowCountAsStated ==
    WriteModeWithIndex =>
        Len(indexFile.file) - 1 =
            Cardinality(NonFilePositions) + Cardinality(PassedPositions)

\* C5, corrected: in normal write mode with an index path, a file that a
\* filter rejected or whose blob is missing has no row; every entry that is
\* not a file and whose path is valid UTF-8 without a line break has a row,
\* whatever the filters are; and the number of data rows is the number of
\* such non-file entries plus the number of files that passed the filters,
\* whose blob was there and whose path has no line break.
C5_RowCount ==
    WriteModeWithIndex =>
        /\ \A i \in 1..Len(outcomes) :
            LET o == outcomes[i]
            IN  /\ (IsFile(o.entry.mode) /\ ~PassedFilters(o)) => ~HasRow(o.entry)
                /\ (~IsFile(o.entry.mode) /\ IndexablePath(o.entry.name))
                        => HasRow(o.entry)
                /\ (PassedFilters(o) /\ ~IndexablePath(o.entry.name))
                        => ~HasRow(o.entry)
        /\ Len(indexFile.file) - 1 =
                Cardinality(NonFilePositions \cap IndexablePositions)
                + Cardinality(PassedPositions \cap IndexablePositions)

\* C5 witness: a written file whose name ends in a line feed and has no row,
\* beside a file that has one.
C5_Witness ==
    /\ WriteModeWithIndex
    /\ Succeeded
    /\ \E i \in 1..Len(outcomes) :
            /\ outcomes[i].fate = "written"
            /\ ContainsLineBreak(outcomes[i].entry.name)
            /\ ~HasRow(outcomes[i].entry)
    /\ Len(indexFile.file) = 2

\* Write mode: file contents are materialised below the output path.
WriteMode == ~opts.IndexOnly /\ ~opts.StatsOnly

\* The files below the output path with a given tree path.
OnDisk(name) == {f \in disk : f.name = name}

\* C6: when a run in write mode returned success, every file the last pass
\* counted as written is on disk once, holds exactly the bytes of its blob,
\* and is as long as the size the blob declares.
C6_WrittenBytes ==
    (WriteMode /\ Succeeded) =>
        /\ writtenCount =
                Cardinality({i \in 1..Len(outcomes) : outcomes[i].fate = "written"})
        /\ snapCounts.writtenCount = writtenCount
        /\ \A i \in 1..Len(outcomes) :
                outcomes[i].fate = "written" =>
                    /\ Cardinality(OnDisk(outcomes[i].entry.name)) = 1
                    /\ \A f \in OnDisk(outcomes[i].entry.name) :
                        /\ f.bytes = BlobBytes(outcomes[i].entry.hash)
                        /\ Len(f.bytes) = BlobSize(outcomes[i].entry.hash)

\* C6 witness: a successful run that wrote two files, one of them not empty.
C6_Witness ==
    /\ WriteMode
    /\ Succeeded
    /\ writtenCount = 2
    /\ \E f \in disk : Len(f.bytes) >= 2

\* An entry the writer must never be given.
NeverWritten(e) ==
    \/ e.mode = "Symlink"
    \/ e.mode \notin {"Regular", "Deprecated", "Executable"}
    \/ ~ValidUTF8(e.name)

\* C7: in write mode, in every reachable state, nothing below the output
\* path (no file, no hash marker) belongs to a tree entry that is a symlink,
\* has a malformed or non-file mode, or has a path that is not valid UTF-8,
\* whatever the patterns and the whitelist are.
C7_NeverWritten ==
    WriteMode =>
        \A e \in Range(tree) :
            NeverWritten(e) =>
                /\ OnDisk(e.name) = {}
                /\ \A m \in markers : m.name # HashMarkerPath(e.name)
                /\ \A i \in 1..Len(outcomes) :
                        outcomes[i].entry = e =>
                            outcomes[i].fate \in {"counted", "not-file", "cheap-skipped"}

\* C7 witness: a real pass went over an entry whose path is not valid UTF-8
\* and is a row of the paths file, and a file was written in the same run.
C7_Witness ==
    /\ WriteMode
    /\ Succeeded
    /\ disk # {}
    /\ opts.PathsFileLocation # ""
    /\ \E i \in 1..Len(outcomes) :
            /\ ~ValidUTF8(outcomes[i].entry.name)
            /\ outcomes[i].entry.name \in Range(opts.PathsFileRows)
            /\ outcomes[i].fate = "cheap-skipped"
            /\ OnDisk(outcomes[i].entry.name) = {}

\* The step is the end of an iteration whose blob was not found.
BlobMissingStep ==
    /\ Len(outcomes') = Len(outcomes) + 1
    /\ outcomes'[Len(outcomes')].fate = "blob-missing"

\* C8: the iteration of a file entry whose blob is not found writes nothing
\* (no file, no hash marker, no manifest row, no written count), counts the
\* entry in the total, returns no error and leaves the walker at the next
\* entry.
C8_MissingBlobSkipped ==
    [][BlobMissingStep =>
        /\ outcomes'[Len(outcomes')].entry = Head(walk)
        /\ disk' = disk
        /\ markers' = markers
        /\ indexFile' = indexFile
        /\ writtenCount' = writtenCount
        /\ statsCollector' = statsCollector
        /\ totalCount' = totalCount + 1
        /\ walk' = Tail(walk)
        /\ pc' = "walk"
        /\ err' = NilErr]_vars

\* C8 witness: a run returned success after a pass in which the blob of the
\* first entry was missing and the entry after it was written.
C8_Witness ==
    /\ Succeeded
    /\ Len(outcomes) = 2
    /\ outcomes[1].fate = "blob-missing"
    /\ outcomes[2].fate = "written"
    /\ totalCount = 2
    /\ writtenCount = 1
    /\ OnDisk(outcomes[1].entry.name) = {}

\* C9: after the blob of a file entry failed to load with packfile-not-found
\* the run has failed with bad-clone-git; after any other error that is not
\* object-not-found it has failed with an error without a code; in both cases
\* the pass stopped at that entry: the entry was counted, its iteration and
\* all later ones never ended, and the walker was not advanced.
C9_FatalBlobError ==
    (hist.blobError # "none") =>
        /\ pc = "done"
        /\ (hist.blobError = "packfile-not-found")
                => err = ErrorWithCode(ERROR_BAD_CLONE_GIT)
        /\ (hist.blobError = "other") => err = PlainErr
        /\ walk # <<>>
        /\ totalCount = Len(outcomes) + 1
        /\ Len(outcomes) + Len(walk) \in {Len(tree), Len(tree) - 1}
        /\ OnDisk(Head(walk).name) = {} \/ attempt > 1
        /\ ~indexFile.open

\* C9 witness: the blob of the first of two entries failed to load with
\* packfile-not-found.
C9_Witness ==
    /\ hist.blobError = "packfile-not-found"
    /\ err = ErrorWithCode(ERROR_BAD_CLONE_GIT)
    /\ Len(walk) = 2
    /\ outcomes = <<>>

\* The revision was resolved for the last time without yielding a commit.
ResolveFailed == hist.lastResolve \in {"no-revision", "no-commit-object"}

\* C10 as stated: whenever the revision does not lead to a commit, because it
\* does not resolve or because the id it resolves to has no commit object,
\* Snapshot has failed with no-revision and has started no pass after that
\* resolution.
C10_ResolveFailureIsNoRevision ==
    ResolveFailed =>
        /\ pc = "done"
        /\ err = ErrorWithCode(ERROR_NO_REVISION)
        /\ hist.dryRuns = hist.resolves - 1
        /\ hist.realRuns = hist.resolves - 1

\* The status codes the taxonomy of the specification lists.
ListedCodes == {101, 201, 202, 203, 204, 205, 206}

\* The status codes util/errors.go defines.
DefinedCodes == ListedCodes \cup {207, 208}

\* The process has ended.
Exited == exitCode # NotExited

C12_SubtreeNotFoundIsBadClone ==
    (hist.walkError = "object-not-found") =>
        /\ pc = "done"
        /\ err = ErrorWithCode(ERROR_BAD_CLONE_GIT)

\* The fates of a file whose blob was loaded, so that the size filter saw it.
LoadedFates == {"size-skipped", "stats-counted", "write-skipped", "written"}

\* C13: a file whose blob was loaded is skipped by the size filter exactly
\* when max_file_size_bytes is positive and the size of the blob is at least
\* max_file_size_bytes: a file of exactly that size is skipped, a smaller one
\* is not, and with max_file_size_bytes = 0 no file is skipped for its size.
C13_SizeFilter ==
    \A i \in 1..Len(outcomes) :
        LET size == Len(BlobBytes(outcomes[i].entry.hash))
        IN  outcomes[i].fate \in LoadedFates =>
                /\ (outcomes[i].fate = "size-skipped")
                        <=> (opts.MaxFileSizeBytes > 0 /\ size >= opts.MaxFileSizeBytes)
                /\ (size = opts.MaxFileSizeBytes /\ size > 0)
                        => outcomes[i].fate = "size-skipped"
                /\ (size < opts.MaxFileSizeBytes) => outcomes[i].fate # "size-skipped"
                /\ (opts.MaxFileSizeBytes = 0) => outcomes[i].fate # "size-skipped"

\* C13 witness: a run returned success after a pass that skipped a file of
\* exactly max_file_size_bytes and wrote nothing for it.
C13_Witness ==
    /\ Succeeded
    /\ WriteMode
    /\ opts.MaxFileSizeBytes > 0
    /\ \E i \in 1..Len(outcomes) :
            /\ outcomes[i].fate = "size-skipped"
            /\ Len(BlobBytes(outcomes[i].entry.hash)) = opts.MaxFileSizeBytes
            /\ OnDisk(outcomes[i].entry.name) = {}

\* The probed entry got as far as the text filter.
ProbeAtTextStage ==
    /\ ProbeAtGlobStage
    /\ probe.reason \notin {"not matching include patterns", "matching exclude patterns"}

\* The extension of the probed path: from its last dot on, nothing when the
\* last component has no dot.
ProbeExt == Ext(ProbePath)

\* C14: with text_only a file that reaches the text filter is rejected by it
\* exactly when its path has an extension and that extension, without the
\* dot, is in the table of binary extensions; a path without extension is
\* never rejected by it, and without text_only no file is.
C14_TextFilter ==
    ProbeAtTextStage =>
        /\ (probe.reason = "not a text file")
                <=> (opts.TextFilesOnly /\ ProbeExt # <<>> /\ Tail(ProbeExt) \in extensions)
        /\ (ProbeExt = <<>>) => probe.reason # "not a text file"
        /\ (ProbeExt = <<".", "z", "i", "p">> /\ opts.TextFilesOnly)
                => probe.reason = "not a text file"
        /\ (ProbeExt = <<".", "g", "o">>) => probe.reason # "not a text file"

\* C14 witness: with text_only, a file without extension passed the filter.
C14_Witness ==
    /\ ProbeAtTextStage
    /\ opts.TextFilesOnly
    /\ ProbeExt = <<>>
    /\ probe.reason = ""

\* The pattern starts with "*/" or with "**/".
StartsWithStar(pat) ==
    \/ Len(pat) >= 2 /\ pat[1] = "*" /\ pat[2] = "/"
    \/ Len(pat) >= 3 /\ pat[1] = "*" /\ pat[2] = "*" /\ pat[3] = "/"

\* The pattern without its leading "*/" or "**/".
Stripped(pat) ==
    IF pat[2] = "/" THEN SubSeq(pat, 3, Len(pat)) ELSE SubSeq(pat, 4, Len(pat))

\* `expanded` is the additive expansion of `given`: the given patterns come
\* first, unchanged and in order, and behind them one stripped copy for each
\* given pattern that starts with "*/" or "**/", in the order of the given
\* patterns, and nothing else.
IsAdditiveExpansion(given, expanded) ==
    LET starred == {i \in 1..Len(given) : StartsWithStar(given[i])}
    IN  /\ Len(expanded) = Len(given) + Cardinality(starred)
        /\ \A i \in 1..Len(given) : expanded[i] = given[i]
        /\ \A i \in starred :
                expanded[Len(given) + Cardinality({j \in starred : j <= i})]
                    = Stripped(given[i])

\* C15: the compiled include list is the additive expansion of the include
\* patterns of the options, and the compiled exclude list is the additive
\* expansion of the exclude patterns: no pattern is removed, each pattern
\* that starts with "*/" or "**/" adds one copy without that prefix, and a
\* copy is not expanded again.
C15_AdditiveExpansion ==
    (pc = "filter") =>
        /\ IsAdditiveExpansion(opts.IncludePatterns, provider.includePatterns)
        /\ IsAdditiveExpansion(opts.ExcludePatterns, provider.excludePatterns)

\* C15 witness: the include list holds a pattern whose stripped copy starts
\* with "**/" itself; the compiled list holds that copy and no copy of the
\* copy, so the path "x", which only a copy of the copy would match, is
\* rejected for the include list.
C15_Witness ==
    /\ pc = "filter"
    /\ Len(opts.IncludePatterns) = 3
    /\ Len(provider.includePatterns) = 5
    /\ StartsWithStar(provider.includePatterns[4])
    /\ probe.decided
    /\ probe.entry.name = <<"x">>
    /\ probe.reason = "not matching include patterns"

\* The exclude patterns Snapshot compiled, and those of the command line.
Compiled == provider # NoProvider
EffectiveExcludes == hist.excludePatterns
UserExcludes == flags.ExcludePatterns
StatsExcludes ==
    NoisyDirectoryExclusionPatterns \o complexityToolExcludePatterns
        \o complexityToolExcludeSuffixes

RECURSIVE SumOfFiles(_)
\* The sum of number_of_files over a set of language buckets.
SumOfFiles(buckets) ==
    IF buckets = {} THEN 0
    ELSE LET b == CHOOSE x \in buckets : TRUE
         IN  b.NumberOfFiles + SumOfFiles(buckets \ {b})

\* The calls of the stats branch that reached AddFile.
AddedCalls ==
    {i \in 1..Len(hist.statCalls) :
        /\ hist.statCalls[i].shouldWrite
        /\ Ext(hist.statCalls[i].name) \in {<<".", "g", "o">>, <<".", "p", "y">>}
        /\ hist.statCalls[i].size <= 6 * MiB
        /\ hist.statCalls[i].counted >= 0}

\* C17: after any sequence of AddFile calls on a fresh aggregator,
\* total_file_count is the sum of number_of_files over the language buckets
\* (and the number of calls made), every bucket present has number_of_files
\* of at least 1, and no language has two buckets.
C17_TotalIsSumOfBuckets ==
    statsCollector # NoStats =>
        /\ statsCollector.TotalFileCount = SumOfFiles(statsCollector.CountersByLanguage)
        /\ pc = "stats" => statsCollector.TotalFileCount = Cardinality(AddedCalls)
        /\ \A b \in statsCollector.CountersByLanguage : b.NumberOfFiles >= 1
        /\ \A b, c \in statsCollector.CountersByLanguage :
                b.language = c.language => b = c

\* C17 witness: two files of one language were added, the second into the
\* bucket the first had opened.
C17_Witness ==
    /\ pc = "stats"
    /\ statsCollector.TotalFileCount = 2
    /\ Cardinality(statsCollector.CountersByLanguage) = 1
    /\ \E b \in statsCollector.CountersByLanguage : b.NumberOfFiles = 2

RECURSIVE SumOfSizes(_)
\* The sum of the blob sizes of a set of calls of the stats branch.
SumOfSizes(calls) ==
    IF calls = {} THEN 0
    ELSE LET i == CHOOSE x \in calls : TRUE
         IN  hist.statCalls[i].size + SumOfSizes(calls \ {i})

\* C18: in stats mode the aggregator's byte total is the sum S of the blob
\* sizes of exactly the files that were added (not of files that were
\* filtered out, had no language mapping, exceeded the cap or failed line
\* counting), and the reported snapshot_size_in_mb is round(S / 1,048,576),
\* the integer nearest to the quotient with halves rounded up.
C18_SnapshotSizeInMb ==
    pc \in {"stats", "done"} /\ statsCollector # NoStats =>
        LET S == SumOfSizes(AddedCalls)
        IN  /\ statsCollector.totalSizeBytes = S
            /\ pc = "done" =>
                    /\ 2 * 1048576 * statsCollector.SnapshotSizeInMb - 1048576 <= 2 * S
                    /\ 2 * S < 2 * 1048576 * statsCollector.SnapshotSizeInMb + 1048576
            /\ statsOutput # NoStats => statsOutput = statsCollector

\* C18 witness: of two files one was over the cap and one of exactly half a
\* mebibyte was added; the document that was written reports 1.
C18_Witness ==
    /\ pc = "done"
    /\ statsOutput # NoStats
    /\ Len(hist.statCalls) = 2
    /\ Cardinality(AddedCalls) = 1
    /\ \E i \in 1..2 : hist.statCalls[i].shouldWrite /\ hist.statCalls[i].size = 6291457
    /\ statsOutput.totalSizeBytes = 524288
    /\ statsOutput.SnapshotSizeInMb = 1

\* C19: in stats mode, whatever skip_double_check is, the engine makes one
\* pass over the tree and no more (no dry run, no retry, no sleep, no
\* files-discrepancy outcome), writes no tree file and no hash marker and
\* creates no directory under output_path, keeps written_count at 0, and
\* writes the JSON stats document, the finalized collector, exactly when it
\* returns success, after that one pass.
C19_StatsModeSinglePass ==
    opts.StatsOnly /\ pc # "parse" =>
        /\ attempt = 0
        /\ ~dryRun
        /\ hist.dryRuns = 0
        /\ hist.realRuns <= 1
        /\ hist.slept = 0
        /\ hist.mismatches = 0
        /\ err # ErrorWithCode(ERROR_FILES_DISCREPANCY)
        /\ disk = {}
        /\ markers = {}
        /\ createdDirs = {}
        /\ writtenCount = 0
        /\ snapCounts.writtenCount = 0
        /\ statsOutput # NoStats <=> Succeeded
        /\ Succeeded =>
                /\ hist.realRuns = 1
                /\ statsOutput = statsCollector
                /\ statsOutput.TotalFileCount >= 0

\* C19 witness: a stats run with skip_double_check off and hash markers asked
\* for succeeded after a pass that counted a file.
C19_Witness ==
    /\ Succeeded
    /\ opts.StatsOnly
    /\ ~opts.SkipDoubleCheck
    /\ opts.CreateHashMarkers
    /\ ~opts.IndexOnly
    /\ hist.realRuns = 1
    /\ snapCounts.totalCount = MaxEntries
    /\ statsOutput.TotalFileCount >= 1

\* The positions of the last pass at which a file was written.
WrittenPositions == {i \in 1..Len(outcomes) : outcomes[i].fate = "written"}

\* The hash markers of a tree path below the output path.
MarkersOf(name) == {m \in markers : m.name = name \o <<".", "h", "a", "s", "h">>}

LastWrite == hist.lastWrite
WriterSkipped ==
    LastWrite.ends \in {"mkdir", "open"} /\ LastWrite.fs \in {"ENAMETOOLONG", "EINVAL"}
WriterFailed ==
    \/ LastWrite.ends \in {"mkdir", "open"} /\ LastWrite.fs = "other"
    \/ LastWrite.ends \in {"reader", "copy", "close"}

\* C21: in the writer a directory-creation or file-create failure of kind
\* name-too-long or invalid-characters makes the entry a skip (the writer
\* returns no error, the entry is counted in total_count but not in
\* written_count, the iteration goes on to the manifest row and the walk
\* continues), and any other directory-creation, file-create, reader, copy or
\* close failure ends the run with an uncoded error, the entry counted in
\* total_count only.
C21_WriterFailures ==
    LastWrite.ends # "none" =>
        /\ LastWrite.at <= totalCount
        /\ writtenCount = Cardinality(WrittenPositions)
        /\ WriterSkipped =>
                /\ Len(outcomes) >= LastWrite.at
                /\ outcomes[LastWrite.at].fate = "write-skipped"
                /\ LastWrite.at = totalCount =>
                        walk = SubSeq(CurrentTree, totalCount + 1, Len(CurrentTree))
        /\ WriterFailed =>
                /\ pc = "done"
                /\ err = PlainErr
                /\ Len(outcomes) = LastWrite.at - 1
                /\ totalCount = LastWrite.at
        /\ LastWrite.ends = "written" =>
                /\ Len(outcomes) >= LastWrite.at
                /\ outcomes[LastWrite.at].fate = "written"
        /\ WriterSkipped \/ WriterFailed \/ LastWrite.ends = "written"

\* C21 witness: the writer wrote the first file and skipped the second for
\* invalid characters in its path; no error was returned and the walk is at
\* its end with one file written out of two entries.
C21_Witness ==
    /\ WriteMode
    /\ pc = "walk"
    /\ walk = <<>>
    /\ err = NilErr
    /\ Len(outcomes) = 2
    /\ outcomes[1].fate = "written"
    /\ outcomes[2].fate = "write-skipped"
    /\ LastWrite = [ends |-> "open", fs |-> "EINVAL", at |-> 2]
    /\ totalCount = 2
    /\ writtenCount = 1

\* The whitelist the paths file gives, and the path the filters test.
Whitelist ==
    IF opts.PathsFileLocation = "" THEN {}
    ELSE {r \in Range(opts.PathsFileRows) : ValidUTF8(r)}
CheckedPath ==
    IF opts.IgnoreCasePatterns THEN ToLower(probe.entry.name) ELSE probe.entry.name
ProbeIsPlainFile ==
    /\ probe.entry.mode \in {"Regular", "Deprecated", "Executable"}
    /\ ValidUTF8(probe.entry.name)

\* C24: when the whitelist loaded from the paths file is not empty, a file
\* passes the cheap filters only if its path, lowercased under ignore_case,
\* is in the whitelist, and a plain file outside it is rejected for the file
\* list; with no paths file, or a whitelist that loaded empty (no row, or
\* every row dropped as invalid UTF-8), no file is rejected for the file list.
C24_Whitelist ==
    (pc = "filter" /\ probe.decided) =>
        /\ provider.fileListToSnap = Whitelist
        /\ (Whitelist # {} /\ probe.reason = "") => CheckedPath \in Whitelist
        /\ (Whitelist # {} /\ ProbeIsPlainFile /\ CheckedPath \notin Whitelist) =>
                probe.reason = "not matching file list"
        /\ probe.reason = "not matching file list" =>
                Whitelist # {} /\ CheckedPath \notin Whitelist
        /\ Whitelist = {} => probe.reason # "not matching file list"

\* C24 witness: under ignore_case a file whose lowercased path is the one row
\* of the paths file passes the filters.
C24_Witness ==
    /\ pc = "filter"
    /\ probe.decided
    /\ opts.IgnoreCasePatterns
    /\ Whitelist = {<<"d", "/", "a", ".", "g", "o">>}
    /\ probe.entry.name = <<"d", "/", "A", ".", "g", "o">>
    /\ probe.reason = ""

\* The paths of the tree, as the tree spells them.
TreePaths == {tree[i].name : i \in 1..Len(tree)}

\* The lowercased path passes the whitelist, the globs and the text filter.
LowercasedPathPasses(name) ==
    LET lp == ToLower(name)
        wl == IF opts.PathsFileLocation = "" THEN {}
              ELSE {r \in Range(opts.PathsFileRows) : ValidUTF8(r)}
    IN  /\ wl = {} \/ lp \in wl
        /\ IF Len(opts.IncludePatterns) > 0
           THEN AnyMatches(opts.IncludePatterns, lp)
           ELSE ~AnyMatches(opts.ExcludePatterns, lp)
        /\ opts.TextFilesOnly => ~NotTextExt(Ext(lp))

\* C25: with ignore_case the filters (whitelist, include, exclude, text
\* extension) decide on the lowercased path, and nothing else uses it: every
\* file below the output path, every hash marker and every manifest row
\* carries a path of the tree in the tree's own case.
C25_OriginalCase ==
    /\ \A f \in disk : f.name \in TreePaths
    /\ \A m \in markers :
            \E n \in TreePaths : m.name = n \o <<".", "h", "a", "s", "h">>
    /\ \A k \in 2..Len(indexFile.buffer) : indexFile.buffer[k][1] \in TreePaths
    /\ \A k \in 2..Len(indexFile.file) : indexFile.file[k][1] \in TreePaths
    /\ opts.IgnoreCasePatterns =>
            \A i \in 1..Len(outcomes) :
                LET e == outcomes[i].entry
                IN  (e.mode \in {"Regular", "Deprecated", "Executable"}
                        /\ ValidUTF8(e.name) /\ outcomes[i].fate # "counted") =>
                    (outcomes[i].fate # "cheap-skipped" <=> LowercasedPathPasses(e.name))

\* C25 witness: under ignore_case a file whose path has an upper-case letter
\* was let through by a lower-case include pattern and is on disk and in the
\* manifest under its own spelling.
C25_Witness ==
    /\ WriteMode
    /\ Succeeded
    /\ opts.IgnoreCasePatterns
    /\ \E f \in disk : f.name = <<"d", "/", "A", ".", "g", "o">>
    /\ Len(indexFile.file) = 3
    /\ indexFile.file[3][1] = <<"d", "/", "A", ".", "g", "o">>

(***************************************************************************)
(* The language lookup is a function of the extension.                     *)
(***************************************************************************)
\* The languages whose list holds the extension.
Owners(extension) == {l \in languageToExtensions : extension \in l.extensions}

\* C26: every extension is in the list of at most one language, so the
\* lookup table does not depend on the order in which it is filled; a lookup
\* answers the same with and without the leading dot; the answer is the
\* language that lists the extension, and none for the empty extension and
\* for an extension in no list.
C26_LookupIsAFunction ==
    /\ \A a, b \in languageToExtensions :
           a.language # b.language => a.extensions \cap b.extensions = {}
    /\ \A a, b \in languageToExtensions : a.language = b.language => a = b
    /\ (pc = "language" /\ probe.looked) =>
           /\ probe.withDot = probe.withoutDot
           /\ Cardinality(Owners(probe.ext)) <= 1
           /\ \A l \in Owners(probe.ext) : probe.withoutDot = l.language
           /\ (probe.ext = <<>> \/ Owners(probe.ext) = {}) => probe.withoutDot = ""

\* A listed extension was looked up both ways and gave its language.
C26_Witness ==
    /\ pc = "language" /\ probe.looked
    /\ probe.ext = <<"h">>
    /\ probe.withDot = "c" /\ probe.withoutDot = "c"

(***************************************************************************)
(* Cheap filters gate the blob loads.                                      *)
(***************************************************************************)
\* The entry passes every cheap filter of the options: mode, UTF-8 validity,
\* whitelist, include/exclude patterns, text-only, and the two length limits.
CheapFiltersPass(o, e) ==
    LET path == IF o.IgnoreCasePatterns THEN ToLower(e.name) ELSE e.name
        listed == IF o.PathsFileLocation = "" THEN {}
                  ELSE {r \in Range(o.PathsFileRows) : ValidUTF8(r)}
    IN  /\ e.mode \in {"Regular", "Deprecated", "Executable"}
        /\ ValidUTF8(e.name)
        /\ listed = {} \/ path \in listed
        /\ IF Len(o.IncludePatterns) > 0
           THEN AnyMatches(o.IncludePatterns, path)
           ELSE ~AnyMatches(excludePatterns(o), path)
        /\ o.TextFilesOnly => ~NotTextExt(Ext(path))
        /\ StrLen(Base(e.name)) <= 255 /\ StrLen(e.name) <= 4095

\* The filter settings among the options.
FilterPart(o) ==
    [IncludePatterns |-> o.IncludePatterns, ExcludePatterns |-> o.ExcludePatterns,
     PathsFileLocation |-> o.PathsFileLocation, PathsFileRows |-> o.PathsFileRows,
     IgnoreCasePatterns |-> o.IgnoreCasePatterns, TextFilesOnly |-> o.TextFilesOnly]

\* For the filter settings of the engine, outside and inside the stats mode,
\* the entries that pass every cheap filter.
PassingEntries ==
    [f \in EngineFilterSettings |-> [stats \in BOOLEAN |->
        {e \in Range(Universe) :
            CheapFiltersPass(Options(f, [DefaultMode EXCEPT !.StatsOnly = stats]), e)}]]

\* The fates of an entry for which the blob was requested.
BlobRequestedFates == LoadedFates \cup {"blob-missing"}

\* C27: every entry for which a pass requested the blob (the blob was missing,
\* or it was loaded and then size-skipped, counted for the stats, written or
\* skipped by the writer) had passed all cheap filters; a run that ended on a
\* blob-load error ended on an entry that had passed them; an entry rejected
\* by a cheap filter has none of these fates; and a dry run or an index-only
\* pass requests no blob at all.
C27_CheapFiltersGateBlobLoads ==
    \A passing \in {PassingEntries[FilterPart(opts)][opts.StatsOnly]} :
        /\ \A i \in 1..Len(outcomes) :
              /\ outcomes[i].fate \in BlobRequestedFates => outcomes[i].entry \in passing
              /\ outcomes[i].fate = "cheap-skipped" => outcomes[i].entry \notin passing
              /\ opts.IndexOnly => outcomes[i].fate \notin BlobRequestedFates
        /\ hist.blobError # "none" =>
              /\ pc = "done" /\ ~dryRun /\ ~opts.IndexOnly
              /\ walk # <<>> /\ Head(walk) \in passing
        /\ (dryRun /\ pc = "walk") =>
              \A i \in 1..Len(outcomes) : outcomes[i].fate = "counted"

\* A real pass went over a file that a cheap filter rejected and then over a
\* file that passed, whose blob load failed and ended the run.
C27_Witness ==
    /\ pc = "done" /\ hist.blobError = "other" /\ err = PlainErr
    /\ Len(outcomes) >= 1
    /\ outcomes[Len(outcomes)].fate = "cheap-skipped"
    /\ IsFile(outcomes[Len(outcomes)].entry.mode)
    /\ walk # <<>> /\ Head(walk) \in PassingEntries[FilterPart(opts)][opts.StatsOnly]

(***************************************************************************)
(* The dry run.                                                            *)
(***************************************************************************)
\* A step of snapshot() called with dryRun = true.
DryRunStep == dryRun /\ pc \in {"pass", "walk"}

\* C28: a step of a dry-run pass leaves the written files, the hash markers,
\* the index file, the stats aggregator, the stats output and the
\* created-directories cache as they were, loads no blob and calls no writer,
\* gives every entry it passes the fate "counted" without filtering it, and
\* when the pass returns its written count is 0 and its total count is the
\* number of entries of the tree it walked.
C28_DryRunChangesNothing ==
    [][DryRunStep =>
          /\ disk' = disk /\ markers' = markers /\ indexFile' = indexFile
          /\ statsCollector' = statsCollector /\ statsOutput' = statsOutput
          /\ createdDirs' = createdDirs /\ provider' = provider
          /\ hist'.blobError = hist.blobError /\ hist'.lastWrite = hist.lastWrite
          /\ pc' \in {"walk", "returned"} =>
                /\ writtenCount' = 0
                /\ totalCount' = Len(outcomes')
                /\ \A i \in 1..Len(outcomes') :
                      /\ outcomes'[i].fate = "counted"
                      /\ outcomes'[i].entry = CurrentTree[i]
          /\ pc' = "returned" => totalCount' = Len(CurrentTree) /\ err' = NilErr
    ]_vars

\* The dry run of a second attempt returned its count while the file and the
\* index rows that the first attempt wrote are still in place.
C28_Witness ==
    /\ pc = "returned" /\ dryRun /\ attempt = 2
    /\ totalCount = 1 /\ writtenCount = 0 /\ totalCountDryRun = 2
    /\ snapCounts = [totalCount |-> 1, writtenCount |-> 1]
    /\ Cardinality(disk) = 1
    /\ indexFile.exists /\ Len(indexFile.file) = 2

(***************************************************************************)
(* The two counters of a pass.                                             *)
(***************************************************************************)
\* The entries of the pass that are files.
FilePositions == {i \in 1..Len(outcomes) : IsFile(outcomes[i].entry.mode)}

\* The step takes an entry from the walker, or counts one.
TakesEntry ==
    /\ pc = "walk"
    /\ walk # <<>>
    /\ walk' = Tail(walk) \/ totalCount' # totalCount

\* What holds of the counters and the fates in every state.
CountersAgree ==
    /\ writtenCount = Cardinality(WrittenPositions)
    /\ WrittenPositions \subseteq FilePositions
    /\ 0 <= writtenCount
    /\ writtenCount <= Cardinality(FilePositions)
    /\ Cardinality(FilePositions) <= totalCount
    /\ totalCount \in {Len(outcomes), Len(outcomes) + 1}
    /\ totalCount = Len(outcomes) + 1 =>
            pc = "done" /\ err # NilErr /\ walk # <<>> /\ IsFile(Head(walk).mode)
    /\ pc \in {"walk", "returned"} =>
            /\ totalCount = Len(outcomes)
            /\ walk = SubSeq(CurrentTree, totalCount + 1, Len(CurrentTree))
            /\ \A i \in 1..Len(outcomes) :
                  /\ outcomes[i].entry = CurrentTree[i]
                  /\ outcomes[i].fate \in
                        IF dryRun THEN {"counted"}
                        ELSE IF ~IsFile(outcomes[i].entry.mode) THEN {"not-file"}
                        ELSE {"cheap-skipped", "blob-missing", "size-skipped", "written",
                              "write-skipped", "stats-counted", "index-only"}

\* C29: a step of a pass that takes an entry from the walker adds exactly one
\* to total_count, whatever fate the entry meets, and adds one to
\* written_count exactly when the entry meets the fate "written" and nothing
\* otherwise; no other step of a pass changes either counter. In every state
\* written_count is the number of entries of the pass that met the fate
\* "written" and 0 <= written_count <= number of file entries seen <=
\* total_count; while a pass walks and when it has returned, total_count is
\* the number of entries the walker has yielded, in the order of the tree.
\* Only a pass that ended on a fatal error inside an iteration has counted
\* an entry that met no fate.
C29_Counters ==
    /\ [][/\ TakesEntry =>
              /\ totalCount' = totalCount + 1
              /\ writtenCount' \in {writtenCount, writtenCount + 1}
              /\ (writtenCount' = writtenCount + 1) <=>
                    outcomes' = Append(outcomes, [entry |-> Head(walk), fate |-> "written"])
              /\ walk' = Tail(walk) =>
                    /\ Len(outcomes') = Len(outcomes) + 1
                    /\ outcomes'[Len(outcomes')].entry = Head(walk)
          /\ (pc = "walk" /\ ~TakesEntry) =>
              totalCount' = totalCount /\ writtenCount' = writtenCount
        ]_vars
    /\ []CountersAgree

\* A real pass returned after a directory and a file in it: two entries were
\* counted and one was written.
C29_Witness ==
    /\ pc = "returned" /\ ~dryRun /\ err = NilErr
    /\ totalCount = 2 /\ writtenCount = 1
    /\ outcomes[1].fate = "not-file" /\ outcomes[2].fate = "written"

(***************************************************************************)
(* No discrepancy without a change of the clone.                           *)
(***************************************************************************)
\* C30: as long as the clone has not been changed underneath the run, no
\* attempt has found a discrepancy: a real pass that returned has the total of
\* its dry run, the run has not slept, it is in no attempt after the first,
\* and it has not failed with files-discrepancy, whatever the filters, the
\* missing blobs and the writer skips did to the entries.
C30_NoChangeNoDiscrepancy ==
    mutations = 0 =>
        /\ hist.mismatches = 0
        /\ hist.slept = 0
        /\ attempt <= 1
        /\ err # ErrorWithCode(ERROR_FILES_DISCREPANCY)
        /\ RealPassReturned => totalCount = totalCountDryRun
        /\ (LoopMode /\ pc = "finish") =>
                attempt = 1 /\ snapCounts.totalCount = totalCountDryRun

\* The first attempt was accepted over a tree of two files, one whose blob
\* was missing and one that the writer skipped.
C30_Witness ==
    /\ LoopMode /\ pc = "finish" /\ attempt = 1 /\ mutations = 0 /\ err = NilErr
    /\ totalCountDryRun = 2
    /\ snapCounts = [totalCount |-> 2, writtenCount |-> 0]
    /\ outcomes[1].fate = "blob-missing" /\ outcomes[2].fate = "write-skipped"

(***************************************************************************)
(* Idempotence.                                                            *)
(***************************************************************************)
\* The positions of the pass at which the entries met the fate.
PositionsWith(os, fate) == {i \in 1..Len(os) : os[i].fate = fate}

\* Both runs have exited with status 0.
BothRunsSucceeded == probe.decided /\ pc = "done" /\ exitCode = 0

\* The clone and the file system answered the second run as they answered
\* the first: the same blobs were missing from the object store and the
\* same paths were refused by the file system.
SameAnswers ==
    /\ PositionsWith(outcomes, "blob-missing")
            = PositionsWith(probe.first.outcomes, "blob-missing")
    /\ PositionsWith(outcomes, "write-skipped")
            = PositionsWith(probe.first.outcomes, "write-skipped")

\* C23: when two consecutive runs with the same command line against the
\* same clone, each over an empty output directory, have both succeeded and
\* were given the same answers by the clone and the file system, the second
\* leaves the same files with the same contents and the same index file,
\* row for row, as the first; and the same hash markers when every hash
\* marker could be written in both.
C23_Idempotence ==
    (BothRunsSucceeded /\ SameAnswers) =>
        /\ disk = probe.first.disk
        /\ indexFile.exists = probe.first.indexFile.exists
        /\ indexFile.file = probe.first.indexFile.file
        /\ (hist.markerFailed = {} /\ probe.first.markerFailed = {}) =>
                markers = probe.first.markers

\* Both runs wrote a directory with one file in it and an index of three
\* rows, with hash markers.
C23_Witness ==
    /\ BothRunsSucceeded /\ SameAnswers
    /\ opts.CreateHashMarkers /\ hist.markerFailed = {}
    /\ Cardinality(disk) = 1 /\ Cardinality(markers) = 1
    /\ Len(indexFile.file) = 3
    /\ Len(probe.first.indexFile.file) = 3
    /\ probe.first.disk = disk

(***************************************************************************)
(* Concurrent calls with disjoint output paths.                            *)
(***************************************************************************)
\* The fates a call running alone can give the entry: the filters and the
\* size limit of its own options decide, and the clone and the file system
\* can leave a blob out or refuse a path.
FatesAlone(r, e) ==
    IF ~IsFile(e.mode) THEN {"not-file"}
    ELSE IF ~shouldIncludeFile(NewProvider(r.opts), e.name, e) THEN {"cheap-skipped"}
    ELSE IF SizeFilterSkips(r.opts, BlobSize(e.hash)) THEN {"blob-missing", "size-skipped"}
    ELSE {"blob-missing", "written", "write-skipped"}

\* The call with these registers and these files under its output path went
\* as a call running alone goes: no discrepancy and no second attempt, and
\* once it has returned without an error it has counted every entry of the
\* tree, given each a fate of a call running alone, and its output path
\* holds exactly the files it wrote, each with the bytes of its blob.
RanAlone(r, files) ==
    /\ r.attempt <= 1
    /\ r.hist.mismatches = 0 /\ r.hist.slept = 0
    /\ r.err # ErrorWithCode(ERROR_FILES_DISCREPANCY)
    /\ r.pc # "start" => r.provider.opts = r.opts
    /\ (r.pc = "done" /\ r.err = NilErr) =>
          /\ r.snapCounts.totalCount = Len(tree)
          /\ Len(r.outcomes) = Len(tree)
          /\ \A i \in 1..Len(r.outcomes) :
                /\ r.outcomes[i].entry = tree[i]
                /\ r.outcomes[i].fate \in FatesAlone(r, tree[i])
          /\ files = {[name |-> r.outcomes[i].entry.name,
                       bytes |-> BlobBytes(r.outcomes[i].entry.hash)] :
                          i \in {k \in 1..Len(r.outcomes) : r.outcomes[k].fate = "written"}}
          /\ r.snapCounts.writtenCount = Cardinality(files)

\* C22: of two calls of Snapshot that run concurrently against the same
\* clone and revision with disjoint output paths, each goes as a call
\* running alone goes, whatever the other has done in between: the call that
\* is running and the call that is waiting both satisfy RanAlone.
C22_ConcurrentRuns ==
    /\ RanAlone(Registers, disk)
    /\ RanAlone(probe.other, Under(OutputPaths[3 - probe.active], probe.files))

\* Both calls have returned without an error after they took turns: the one
\* without filters wrote its file, the other skipped the same file.
C22_Witness ==
    /\ pc = "done" /\ err = NilErr
    /\ probe.other.pc = "done" /\ probe.other.err = NilErr
    /\ Len(tree) = 2
    /\ outcomes[2].fate = "cheap-skipped" /\ disk = {}
    /\ probe.other.outcomes[2].fate = "written"
    /\ Cardinality(probe.files) = 1

(***************************************************************************)
(* The index file across attempts.                                         *)
(***************************************************************************)
\* A real pass that was given an index path is about to start.
RealPassStarts ==
    /\ pc = "pass"
    /\ ~dryRun
    /\ opts.OptionalIndexFilePath # ""

\* The rows the pass has handed to the csv writer so far.
RowsSoFar ==
    [i \in 1..Len(IndexedOutcomes) |-> RowOf(IndexedOutcomes[i].entry)]

\* The lines are a header followed by rows of distinct entries of the tree,
\* and no second header.
OneManifest(lines) ==
    /\ lines[1] = Header
    /\ Len(lines) <= 1 + Len(tree)
    /\ \A i \in 2..Len(lines) :
          /\ lines[i][3] \in {"true", "false"}
          /\ \E j \in 1..Len(tree) : lines[i] = RowOf(tree[j])
          /\ \A k \in 2..Len(lines) : lines[k] = lines[i] => k = i

\* C31: the step of snapshot() that starts a real pass with an index path
\* (not a change of the clone that comes before it) either creates
\* the index file empty, whatever an earlier attempt left in it, and buffers
\* the header as the first line, or fails; when it fails (the tree or the
\* file cannot be had) the pass ends with an error and has walked no entry,
\* written no file and no marker, and left the index file as it was. While
\* the pass walks, the buffered lines are the header followed by the rows of
\* this pass so far. In every state the index file on disk is empty or one
\* header followed by rows of distinct entries, and after the real pass of a
\* second or later attempt returned it is the header followed by the rows
\* of that pass only.
C31_IndexFileRecreated ==
    /\ [][(RealPassStarts /\ pc' # pc) =>
            /\ pc' \in {"walk", "done"}
            /\ pc' = "walk" =>
                  indexFile' = [open |-> TRUE, buffer |-> <<Header>>,
                                exists |-> TRUE, file |-> <<>>]
            /\ pc' = "done" =>
                  /\ err' \in {PlainErr, ErrorWithCode(ERROR_TREE_NOT_FOUND)}
                  /\ indexFile' = indexFile
                  /\ walk' = walk
                  /\ outcomes' \in {<<>>, outcomes}
                  /\ disk' = disk
                  /\ markers' = markers
                  /\ hist'.realRuns = hist.realRuns
         ]_vars
    /\ [](/\ (pc = "walk" /\ indexFile.open) =>
                /\ indexFile.buffer = <<Header>> \o RowsSoFar
                /\ indexFile.file = <<>>
          /\ indexFile.file # <<>> => OneManifest(indexFile.file)
          /\ (RealPassReturned /\ attempt >= 2 /\ opts.OptionalIndexFilePath # "") =>
                indexFile.file = <<Header>> \o RowsSoFar)

\* C31 witness: the real pass of the second attempt returned with a manifest
\* of the header and two rows, after the first attempt's real pass had seen
\* one entry only and its count was rejected.
C31_Witness ==
    /\ RealPassReturned
    /\ attempt = 2
    /\ hist.mismatches = 1
    /\ hist.realRuns = 2
    /\ Len(outcomes) = 2
    /\ indexFile.file = <<Header, RowOf(outcomes[1].entry), RowOf(outcomes[2].entry)>>

(***************************************************************************)
(* The bytes of the index file: snapshot() creates it, writes the header   *)
(* and the record of one tree entry through a csv.Writer whose Comma is a  *)
(* tab, and flushes; a reader then scans the file line by line and splits  *)
(* each line at the tabs.                                                  *)
(***************************************************************************)
\* The characters a path of a tree entry is made of here: a letter, a tab, a
\* double quote, a line feed, a carriage return, a byte that is not UTF-8
\* and a space.
PathChars == {"a", "TAB", "QUOTE", "LF", "CR", "xFF", " "}

\* The paths: one or two characters.
ManifestPaths == {<<c>> : c \in PathChars} \cup {<<c, d>> : c \in PathChars, d \in PathChars}

\* The tree entries: a file or a directory with such a path.
ManifestEntries ==
    {[name |-> n, mode |-> m, hash |-> 6] : n \in ManifestPaths, m \in {"Regular", "Dir"}}

\* csv.Writer.fieldNeedsQuotes with Comma = '\t': a field that holds the
\* delimiter, a quote or a line break, or that starts with a space.
fieldNeedsQuotes(field) ==
    /\ field # <<>>
    /\ \/ \E i \in 1..Len(field) : field[i] \in {"TAB", "QUOTE", "LF", "CR"}
       \/ field[1] \in {" ", "TAB", "LF", "CR"}

RECURSIVE QuoteEscaped(_)
\* The inside of a quoted field: every quote doubled, the rest as it is.
QuoteEscaped(field) ==
    IF field = <<>> THEN <<>>
    ELSE (IF Head(field) = "QUOTE" THEN <<"QUOTE", "QUOTE">> ELSE <<Head(field)>>)
         \o QuoteEscaped(Tail(field))

\* One field as csv.Writer.Write emits it.
csvField(field) ==
    IF fieldNeedsQuotes(field)
    THEN <<"QUOTE">> \o QuoteEscaped(field) \o <<"QUOTE">>
    ELSE field

\* csv.Writer.Write of a record of three fields: the fields with a tab
\* between them and a line feed at the end.
csvWrite(record) ==
    csvField(record[1]) \o <<"TAB">> \o csvField(record[2]) \o <<"TAB">>
        \o csvField(record[3]) \o <<"LF">>

\* The header record, field by field.
HeaderFields == << <<"Path">>, <<"BlobId">>, <<"IsFile">> >>

\* The record of a buffered row, field by field: the path character by
\* character, the forty hexadecimal digits of the object id as one token
\* (none of them is special to the csv writer) and the boolean.
RowFields(row) == <<row[1], <<"hexdigits">>, <<row[3]>>>>

RECURSIVE RowBytes(_, _)
\* The bytes of the buffered rows from the i-th on.
RowBytes(buffer, i) ==
    IF i > Len(buffer) THEN <<>>
    ELSE csvWrite(RowFields(buffer[i])) \o RowBytes(buffer, i + 1)

\* What the flush puts into the file: the header line and the rows.
FileBytes(buffer) == csvWrite(HeaderFields) \o RowBytes(buffer, 2)

RECURSIVE SplitAt(_, _, _)
\* strings.Split(s, sep) for a separator of one character; cur is the part
\* read so far.
SplitAt(s, sep, cur) ==
    IF s = <<>> THEN <<cur>>
    ELSE IF Head(s) = sep THEN <<cur>> \o SplitAt(Tail(s), sep, <<>>)
    ELSE SplitAt(Tail(s), sep, Append(cur, Head(s)))

\* bufio.ScanLines: the lines of the file without their line feed and without
\* a carriage return before it; an empty last line is no line.
ScanLines(bytes) ==
    LET parts == SplitAt(bytes, "LF", <<>>)
        kept == IF parts[Len(parts)] = <<>> THEN SubSeq(parts, 1, Len(parts) - 1)
                ELSE parts
    IN  [i \in 1..Len(kept) |->
            IF kept[i] # <<>> /\ kept[i][Len(kept[i])] = "CR"
            THEN SubSeq(kept[i], 1, Len(kept[i]) - 1)
            ELSE kept[i]]

\* strings.Split(line, "\t")
SplitTab(line) == SplitAt(line, "TAB", <<>>)

InitManifest ==
    \E e \in ManifestEntries :
        /\ probe = [entry |-> e, bytes |-> <<>>, decided |-> FALSE]
        /\ pc = "create"
        /\ opts = [Options(CHOOSE f \in FilterSettings : TRUE, DefaultMode)
                     EXCEPT !.OptionalIndexFilePath = "index"]
        /\ flags = opts
        /\ provider = NoProvider
        /\ exitCode = NotExited
        /\ tree = <<e>>
        /\ hidden = FALSE
        /\ mutations = 0
        /\ err = NilErr
        /\ attempt = 0
        /\ dryRun = FALSE
        /\ walk = <<e>>
        /\ totalCount = 0
        /\ writtenCount = 0
        /\ totalCountDryRun = 0
        /\ snapCounts = [totalCount |-> 0, writtenCount |-> 0]
        /\ disk = {}
        /\ markers = {}
        /\ indexFile = ClosedIndex
        /\ createdDirs = {}
        /\ statsCollector = NoStats
        /\ statsOutput = NoStats
        /\ hist = NoHist
        /\ outcomes = <<>>

\* os.Create and the header record.
CreateIndex ==
    /\ pc = "create"
    /\ pc' = "row"
    /\ indexFile' = [open |-> TRUE, buffer |-> <<Header>>, exists |-> TRUE, file |-> <<>>]
    /\ UNCHANGED <<opts, tree, hidden, mutations, err, provider, attempt, dryRun, walk,
                   totalCount, writtenCount, totalCountDryRun, snapCounts, disk, markers,
                   createdDirs, statsCollector, statsOutput, hist, outcomes, probe,
                   flags, exitCode>>

\* The iteration of the entry reaches addEntryToIndexFile.
AddRow ==
    /\ pc = "row"
    /\ pc' = "flush"
    /\ indexFile' = addEntryToIndexFile(indexFile, Head(walk).name, Head(walk))
    /\ walk' = Tail(walk)
    /\ totalCount' = totalCount + 1
    /\ UNCHANGED <<opts, tree, hidden, mutations, err, provider, attempt, dryRun,
                   writtenCount, totalCountDryRun, snapCounts, disk, markers,
                   createdDirs, statsCollector, statsOutput, hist, outcomes, probe,
                   flags, exitCode>>

\* io.EOF: the csv writer is flushed into the file.
FlushIndex ==
    /\ pc = "flush"
    /\ pc' = "returned"
    /\ indexFile' = [open |-> FALSE, buffer |-> <<>>, exists |-> TRUE,
                     file |-> indexFile.buffer]
    /\ probe' = [probe EXCEPT !.bytes = FileBytes(indexFile.buffer), !.decided = TRUE]
    /\ UNCHANGED <<opts, tree, hidden, mutations, err, provider, attempt, dryRun, walk,
                   totalCount, writtenCount, totalCountDryRun, snapCounts, disk, markers,
                   createdDirs, statsCollector, statsOutput, hist, outcomes, flags,
                   exitCode>>

NextManifest == CreateIndex \/ AddRow \/ FlushIndex

SpecManifest == InitManifest /\ [][NextManifest]_vars

\* The index file has been written and closed.
ManifestFlushed == pc = "returned" /\ probe.decided

\* C32: every line of the flushed manifest splits at the tabs into exactly
\* three fields; the first line is Path, BlobId, IsFile; an entry whose path
\* is not valid UTF-8 or contains a line feed or a carriage return has no
\* line; in a data line the first field is the path of the entry, valid
\* UTF-8 and without a line break, and the third field is true or false.
C32_ThreeFieldsPerLine ==
    ManifestFlushed =>
        \A lines \in {ScanLines(probe.bytes)} :
            /\ \A i \in 1..Len(lines) : Len(SplitTab(lines[i])) = 3
            /\ SplitTab(lines[1]) = HeaderFields
            /\ Len(lines) = IF IndexablePath(probe.entry.name) THEN 2 ELSE 1
            /\ \A i \in 2..Len(lines) :
                  /\ ValidUTF8(SplitTab(lines[i])[1])
                  /\ ~ContainsLineBreak(SplitTab(lines[i])[1])
                  /\ SplitTab(lines[i])[3] \in {<<"true">>, <<"false">>}

(***************************************************************************)
(* Index-only runs with every setting of the size limit and of the marker  *)
(* flag, next to runs that write.                                          *)
(***************************************************************************)
\* The command lines: index_only with or without a size limit, hash markers,
\* an index path and the double check; and, to compare with, a writing run
\* with a size limit, hash markers and an index path.
IndexOnlySettings ==
    {m \in [MaxFileSizeBytes : {0, 2}, SkipDoubleCheck : BOOLEAN, StatsOnly : {FALSE},
            IndexOnly : BOOLEAN, CreateHashMarkers : BOOLEAN,
            OptionalIndexFilePath : {"", "index.tsv"}] :
        ~m.IndexOnly => /\ m.MaxFileSizeBytes = 2
                        /\ m.CreateHashMarkers
                        /\ m.OptionalIndexFilePath # ""
                        /\ m.SkipDoubleCheck}

InitIndexOnly ==
    \E f \in EngineFilterSettings, m \in IndexOnlySettings, t \in Trees :
        InitWith(Options(f, m), t)

NextIndexOnly ==
    \/ ParseOptions
    \/ Exit
    \/ MutateClone
    \/ OpenClone
    \/ ResolveRevision
    \/ SleepAndReacquire
    \/ StartPass
    \/ WalkEOF
    \/ WalkError
    \/ DryCount
    \/ IndexNonFile
    \/ IndexOnlyFile
    \/ SkipFiltered
    \/ BlobNotFound
    \/ BlobLoadFails
    \/ SkipOversize
    \/ WriteFile
    \/ AfterSinglePass
    \/ AfterDryRun
    \/ AcceptAttempt
    \/ RetryAttempt
    \/ FailDiscrepancy
    \/ Finish

SpecIndexOnly == InitIndexOnly /\ [][NextIndexOnly]_vars

\* The rows an index-only pass owes for the entries it has seen: one for
\* every entry that is not a file or passes the cheap filters, if its path
\* can be indexed.
IndexOnlyRows ==
    LET passing == PassingEntries[FilterPart(opts)][opts.StatsOnly]
        listed == SelectSeq(outcomes,
                            LAMBDA o : /\ ~IsFile(o.entry.mode) \/ o.entry \in passing
                                       /\ IndexablePath(o.entry.name))
    IN  [i \in 1..Len(listed) |-> RowOf(listed[i].entry)]

\* C33: in a run with index_only nothing is ever written under the output
\* path (no tree file, no hash marker, no directory) and written_count is 0
\* in every state; no entry of any pass meets a fate that loads a blob
\* (missing blob, size filter, writer), and no blob error is met; in a real
\* pass (the dry run only counts) a file entry is listed exactly if it
\* passes the cheap filters,
\* whatever its size and the size limit, and is skipped by the cheap filters
\* otherwise; the manifest of a real pass that returned is the header and
\* the rows of the non-file entries and of the files that pass the cheap
\* filters.
C33_IndexOnly ==
    opts.IndexOnly =>
        /\ disk = {} /\ markers = {} /\ createdDirs = {}
        /\ writtenCount = 0 /\ snapCounts.writtenCount = 0
        /\ hist.blobError = "none"
        /\ hist.lastWrite = NoHist.lastWrite
        /\ \A passing \in {PassingEntries[FilterPart(opts)][opts.StatsOnly]} :
              \A i \in 1..Len(outcomes) :
                 /\ outcomes[i].fate \in {"counted", "not-file", "cheap-skipped", "index-only"}
                 /\ outcomes[i].fate # "counted" =>
                       outcomes[i].fate =
                          IF ~IsFile(outcomes[i].entry.mode) THEN "not-file"
                          ELSE IF outcomes[i].entry \in passing THEN "index-only"
                          ELSE "cheap-skipped"
        /\ ManifestWritten => indexFile.file = <<Header>> \o IndexOnlyRows

\* C33 witness: an index-only real pass with a size limit of 2 bytes has
\* returned; it listed a file of 2 bytes, which a writing run would have
\* skipped for its size, and wrote nothing.
C33_Witness ==
    /\ opts.IndexOnly
    /\ opts.MaxFileSizeBytes = 2
    /\ opts.CreateHashMarkers
    /\ RealPassReturned
    /\ Len(outcomes) = 2
    /\ outcomes[2].fate = "index-only"
    /\ BlobSize(outcomes[2].entry.hash) = 2
    /\ SizeFilterSkips(opts, BlobSize(outcomes[2].entry.hash))
    /\ indexFile.file = <<Header, RowOf(outcomes[1].entry), RowOf(outcomes[2].entry)>>
    /\ disk = {}

(***************************************************************************)
(* Stats mode: a file on which the line counter fails.                     *)
(***************************************************************************)
\* The calls of the stats branch that reached countLinesOfCode: the file
\* passed the filters, has a language and is not above the stats size limit.
CounterCalls ==
    {i \in 1..Len(hist.statCalls) :
        /\ hist.statCalls[i].shouldWrite
        /\ GetLanguageFromExtension(Ext(hist.statCalls[i].name)) # ""
        /\ hist.statCalls[i].size <= statsMaxFileSizeBytes}

\* The calls among them for files of the language.
CounterCallsOf(language) ==
    {i \in CounterCalls : GetLanguageFromExtension(Ext(hist.statCalls[i].name)) = language}

RECURSIVE LinesRecorded(_)
\* The lines of code the calls stand for, a failed count standing for 0.
LinesRecorded(calls) ==
    IF calls = {} THEN 0
    ELSE LET i == CHOOSE x \in calls : TRUE
         IN  (IF hist.statCalls[i].counted = CountFailed THEN 0
              ELSE hist.statCalls[i].counted)
             + LinesRecorded(calls \ {i})

\* C34: in stats mode every file that reached the line counter is recorded,
\* also when the counter failed on it: total_file_count is the number of
\* such files, and the bucket of its language holds the file in its number
\* of files and holds the sum of the counted lines, 0 for a failed count.
C34_FailedCountRecordsZero ==
    pc = "stats" =>
        /\ statsCollector.TotalFileCount = Cardinality(CounterCalls)
        /\ \A i \in CounterCalls :
              \E b \in statsCollector.CountersByLanguage :
                 /\ b.language = GetLanguageFromExtension(Ext(hist.statCalls[i].name))
                 /\ b.NumberOfFiles = Cardinality(CounterCallsOf(b.language))
                 /\ b.LinesOfCode = LinesRecorded(CounterCallsOf(b.language))

(***************************************************************************)
(* The line counter: countLinesOfCode over the decoded lines of a blob.    *)
(* A line is a sequence of characters; the loop takes one line per step.   *)
(***************************************************************************)
MaxLineLen == 4

MaxLines == 2

\* strings.Index: the position of the first occurrence of sub in s, counted
\* from 1; NoIndex if there is none (Go counts from 0 and returns -1).
NoIndex == 0

Index(s, sub) ==
    LET at == {i \in 1..(Len(s) - Len(sub) + 1) : SubSeq(s, i, i + Len(sub) - 1) = sub}
    IN  IF at = {} THEN NoIndex ELSE CHOOSE i \in at : \A j \in at : i <= j

\* strings.Contains
Contains(s, sub) == Index(s, sub) # NoIndex

\* strings.TrimSpace, for lines whose only white space is the blank.
TrimSpace(s) ==
    LET inked == {i \in 1..Len(s) : s[i] # " "}
    IN  IF inked = {} THEN <<>>
        ELSE SubSeq(s, CHOOSE i \in inked : \A j \in inked : i <= j,
                       CHOOSE i \in inked : \A j \in inked : i >= j)

\* The tokens of the counter.
SlashStar == <<"/", "*">>
StarSlash == <<"*", "/">>
pythonMultilineString == <<"QUOTE", "QUOTE", "QUOTE">>
RubyBegin == <<"=", "b", "e", "g", "i", "n">>
RubyEnd == <<"=", "e", "n", "d">>
RubyHereDoc == <<"<", "<", "-", "D", "O", "C">>
RubyDoc == <<"D", "O", "C">>

\* isStartOfMultiLineComment: strings.Cut at the first "/*", and the look at
\* the next character if more than one follows.
isStartOfMultiLineComment(cleanLine) ==
    LET at == Index(cleanLine, SlashStar)
        after == SubSeq(cleanLine, at + 2, Len(cleanLine))
    IN  IF at = NoIndex THEN FALSE
        ELSE IF Len(after) > 1 /\ after[1] \in {"'", "QUOTE", "."} THEN FALSE
        ELSE TRUE

\* What one iteration of the loop leaves: the expected end, whether the line
\* was counted, and what the iteration saw on its way (the line it went on
\* with after the end of a block, the kind of block start it detected, the
\* text before and after the start token).
Iteration(expect, counted, rest, start, pre, post) ==
    [expectEndingComment |-> expect, counted |-> counted, rest |-> rest,
     start |-> start, cleanLine |-> pre, postCommentLine |-> post]

\* An iteration that skips the line only if the text before the start token
\* is empty and the block is still open at the end of the line.
OrdinaryLine_SkipsOnlyOpenBlock(line, language) ==
    LET cleanLine == TrimSpace(line)
        start ==
            IF isStartOfMultiLineComment(cleanLine) THEN "c"
            ELSE IF language = "python" /\ Contains(cleanLine, pythonMultilineString)
                 THEN "python"
            ELSE IF language = "ruby" /\ HasPrefix(cleanLine, RubyBegin) THEN "ruby-begin"
            ELSE IF language = "ruby" /\ HasPrefix(cleanLine, RubyHereDoc) THEN "ruby-doc"
            ELSE "none"
        token == IF start = "c" THEN SlashStar ELSE pythonMultilineString
        expect == CASE start = "c" -> StarSlash
                    [] start = "python" -> pythonMultilineString
                    [] start = "ruby-begin" -> RubyEnd
                    [] start = "ruby-doc" -> RubyDoc
                    [] OTHER -> <<>>
        commentIndex == Index(cleanLine, token)
        post == IF start \in {"c", "python"}
                THEN TrimSpace(SubSeq(cleanLine, commentIndex + Len(token), Len(cleanLine)))
                ELSE <<>>
        pre == IF start \in {"c", "python"}
               THEN TrimSpace(SubSeq(cleanLine, 1, commentIndex - 1))
               ELSE cleanLine
    IN  IF Len(cleanLine) = 0 THEN Iteration(<<>>, FALSE, line, "none", cleanLine, <<>>)
        ELSE IF HasPrefix(cleanLine, <<"/", "/">>) \/ HasPrefix(cleanLine, <<"#">>)
        THEN Iteration(<<>>, FALSE, line, "none", cleanLine, <<>>)
        ELSE IF start \in {"ruby-begin", "ruby-doc"}
        THEN Iteration(expect, FALSE, line, start, cleanLine, <<>>)
        ELSE IF Len(post) > 0 /\ ~Contains(post, expect) /\ Len(pre) = 0
        THEN Iteration(expect, FALSE, line, start, pre, post)
        ELSE Iteration(IF Len(post) > 0 /\ Contains(post, expect) THEN <<>> ELSE expect,
                       Len(pre) # 0 \/ (Len(post) > 0 /\ Contains(post, expect)),
                       line, start, pre, post)

\* The iteration from the trimmed line on; expect is "" here.
OrdinaryLine(line, language) ==
    LET cleanLine == TrimSpace(line)
        start ==
            IF isStartOfMultiLineComment(cleanLine) THEN "c"
            ELSE IF language = "python" /\ Contains(cleanLine, pythonMultilineString)
                 THEN "python"
            ELSE IF language = "ruby" /\ HasPrefix(cleanLine, RubyBegin) THEN "ruby-begin"
            ELSE IF language = "ruby" /\ HasPrefix(cleanLine, RubyHereDoc) THEN "ruby-doc"
            ELSE "none"
        token == IF start = "c" THEN SlashStar ELSE pythonMultilineString
        expect == CASE start = "c" -> StarSlash
                    [] start = "python" -> pythonMultilineString
                    [] start = "ruby-begin" -> RubyEnd
                    [] start = "ruby-doc" -> RubyDoc
                    [] OTHER -> <<>>
        commentIndex == Index(cleanLine, token)
        post == IF start \in {"c", "python"}
                THEN TrimSpace(SubSeq(cleanLine, commentIndex + Len(token), Len(cleanLine)))
                ELSE <<>>
        pre == IF start \in {"c", "python"}
               THEN TrimSpace(SubSeq(cleanLine, 1, commentIndex - 1))
               ELSE cleanLine
    IN  IF Len(cleanLine) = 0 THEN Iteration(<<>>, FALSE, line, "none", cleanLine, <<>>)
        ELSE IF HasPrefix(cleanLine, <<"/", "/">>) \/ HasPrefix(cleanLine, <<"#">>)
        THEN Iteration(<<>>, FALSE, line, "none", cleanLine, <<>>)
        ELSE IF start \in {"ruby-begin", "ruby-doc"}
        THEN Iteration(expect, FALSE, line, start, cleanLine, <<>>)
        ELSE IF Len(post) > 0 /\ ~Contains(post, expect) /\ Len(pre) = 0
        THEN Iteration(expect, FALSE, line, start, pre, post)
        ELSE Iteration(IF Len(post) > 0 /\ Contains(post, expect) THEN <<>> ELSE expect,
                       Len(pre) # 0, line, start, pre, post)

\* A loop body that takes a line inside a block for an ordinary line.
countLine_IgnoresBlock(line, expect, language) ==
    OrdinaryLine(line, language)

\* One iteration of the loop of countLinesOfCode.
countLine(line, expect, language) ==
    IF Len(expect) > 0
    THEN LET endCommentIndex == Index(line, expect)
         IN  IF endCommentIndex = NoIndex
             THEN Iteration(expect, FALSE, <<>>, "none", <<>>, <<>>)
             ELSE OrdinaryLine(
                    TrimSpace(SubSeq(line, endCommentIndex + Len(expect), Len(line))),
                    language)
    ELSE OrdinaryLine(line, language)

\* The characters of the short lines: the two of the comment tokens, the
\* three the look after "/*" knows, a letter and a blank.
CommentChars == {"/", "*", "'", "QUOTE", ".", "x", " "}

\* Every line of up to MaxLineLen of these characters.
ShortLines == UNION {[1..n -> CommentChars] : n \in 0..MaxLineLen}

\* Lines of files with blocks: code, blank lines, line comments, starts and
\* ends of blocks in every order, for C-like languages, Python and Ruby.
BlockLines == {
    <<>>,
    <<"x">>,
    <<" ">>,
    <<"/", "/", "x">>,
    <<"#", "x">>,
    <<"/", "*">>,
    <<"*", "/">>,
    <<"x", "/", "*">>,
    <<"*", "/", "x">>,
    <<"/", "*", "x", "*", "/">>,
    <<"/", "*", "x", "*", "/", "x">>,
    <<"x", "/", "*", "x", "*", "/">>,
    <<"*", "/", "/", "*">>,
    <<"*", "/", "x", "/", "*">>,
    <<"/", "*", "'">>,
    <<"QUOTE", "QUOTE", "QUOTE">>,
    <<"x", "QUOTE", "QUOTE", "QUOTE">>,
    <<"QUOTE", "QUOTE", "QUOTE", "x", "QUOTE", "QUOTE", "QUOTE">>,
    <<"=", "b", "e", "g", "i", "n">>,
    <<"=", "e", "n", "d">>,
    <<"<", "<", "-", "D", "O", "C">>,
    <<"D", "O", "C">>
    }

\* The files: one short line, or up to MaxLines of the block lines.
CounterFiles ==
    {<<l>> : l \in ShortLines}
        \cup UNION {[1..n -> BlockLines] : n \in 1..MaxLines}

\* The language tags that make a difference to the counter.
CounterLanguages == {"go", "python", "ruby"}

InitCounter ==
    \E lines \in CounterFiles, language \in CounterLanguages :
        /\ probe = [lines |-> lines, language |-> language, next |-> 1,
                    expectEndingComment |-> <<>>, linesOfCode |-> 0, log |-> <<>>]
        /\ pc = "count"
        /\ opts = Options(CHOOSE f \in FilterSettings : TRUE, DefaultMode)
        /\ flags = opts
        /\ provider = NoProvider
        /\ exitCode = NotExited
        /\ tree = <<>>
        /\ hidden = FALSE
        /\ mutations = 0
        /\ err = NilErr
        /\ attempt = 0
        /\ dryRun = FALSE
        /\ walk = <<>>
        /\ totalCount = 0
        /\ writtenCount = 0
        /\ totalCountDryRun = 0
        /\ snapCounts = [totalCount |-> 0, writtenCount |-> 0]
        /\ disk = {}
        /\ markers = {}
        /\ indexFile = ClosedIndex
        /\ createdDirs = {}
        /\ statsCollector = NoStats
        /\ statsOutput = NoStats
        /\ hist = NoHist
        /\ outcomes = <<>>

\* The loop takes the next line.
CountLine ==
    /\ pc = "count"
    /\ probe.next <= Len(probe.lines)
    /\ \E it \in {countLine(probe.lines[probe.next], probe.expectEndingComment,
                            probe.language)} :
        probe' = [probe EXCEPT
                    !.next = @ + 1,
                    !.expectEndingComment = it.expectEndingComment,
                    !.linesOfCode = IF it.counted THEN @ + 1 ELSE @,
                    !.log = Append(@, [before |-> probe.expectEndingComment,
                                       line |-> probe.lines[probe.next],
                                       it |-> it])]
    /\ UNCHANGED <<opts, tree, hidden, mutations, pc, err, provider, attempt, dryRun,
                   walk, totalCount, writtenCount, totalCountDryRun, snapCounts, disk,
                   markers, indexFile, createdDirs, statsCollector, statsOutput, hist,
                   outcomes, flags, exitCode>>

\* The lines are used up: countLinesOfCode returns linesOfCode.
ReturnCount ==
    /\ pc = "count"
    /\ probe.next > Len(probe.lines)
    /\ pc' = "counted"
    /\ UNCHANGED <<opts, tree, hidden, mutations, err, provider, attempt, dryRun,
                   walk, totalCount, writtenCount, totalCountDryRun, snapCounts, disk,
                   markers, indexFile, createdDirs, statsCollector, statsOutput, hist,
                   outcomes, probe, flags, exitCode>>

NextCounter == CountLine \/ ReturnCount

SpecCounter == InitCounter /\ [][NextCounter]_vars

(***************************************************************************)
(* Properties of the line counter.                                         *)
(***************************************************************************)
\* The trimmed text in which the iteration looked for a block start.
Examined(entry) == TrimSpace(entry.it.rest)

\* The character after the first "/*" of the text, "" if the text ends there.
AfterSlashStar(text) ==
    IF Index(text, SlashStar) + 2 <= Len(text) THEN text[Index(text, SlashStar) + 2] ELSE ""

\* C35: whenever an iteration of the counter takes a line, or what is left of
\* it after the end of a block, for the start of a "/*" block, the text holds
\* a "/*" and the character immediately after the first one is not ', " or
\* "."; this holds also when exactly one character follows the "/*".
C35_SlashStarNotBeforeQuote ==
    \A i \in 1..Len(probe.log) :
        probe.log[i].it.start = "c" =>
            /\ Contains(Examined(probe.log[i]), SlashStar)
            /\ AfterSlashStar(Examined(probe.log[i])) \notin {"'", "QUOTE", "."}

\* The start and the end token of the kind of block an iteration detected.
StartToken(start) == IF start = "c" THEN SlashStar ELSE pythonMultilineString
EndToken(start) == IF start = "c" THEN StarSlash ELSE pythonMultilineString

\* The iterations that detected a block start and split the line at it.
SplitIterations == {i \in 1..Len(probe.log) : probe.log[i].it.start \in {"c", "python"}}

\* The text before and the text after the first start token of the line.
PreStart(entry) ==
    TrimSpace(SubSeq(Examined(entry), 1,
                     Index(Examined(entry), StartToken(entry.it.start)) - 1))
PostStart(entry) ==
    TrimSpace(SubSeq(Examined(entry),
                     Index(Examined(entry), StartToken(entry.it.start))
                        + Len(StartToken(entry.it.start)),
                     Len(Examined(entry))))

\* C36 as stated: on a line on which a block start was detected, the expected
\* end is cleared if the end token follows on the line; the line is skipped
\* only when the text before the start token is empty and the expected end
\* is still set at the end of the line, and is counted in every other case.
C36_SkippedOnlyIfStillOpen ==
    \A i \in SplitIterations :
        /\ Contains(PostStart(probe.log[i]), EndToken(probe.log[i].it.start)) =>
              probe.log[i].it.expectEndingComment = <<>>
        /\ ~probe.log[i].it.counted <=>
              /\ PreStart(probe.log[i]) = <<>>
              /\ probe.log[i].it.expectEndingComment # <<>>

\* C36, corrected: on a line on which a block start was detected, the
\* expected end is cleared exactly if the end token occurs in the text after
\* the start token, and is the end token of the block otherwise; the line is
\* skipped exactly when the text before the start token is empty, whether
\* the block was closed on the line or not, and is counted exactly when that
\* text is not empty.
C36_SkippedIfNothingBeforeStart ==
    \A i \in SplitIterations :
        /\ probe.log[i].it.expectEndingComment =
              IF Contains(PostStart(probe.log[i]), EndToken(probe.log[i].it.start))
              THEN <<>>
              ELSE EndToken(probe.log[i].it.start)
        /\ probe.log[i].it.counted <=> PreStart(probe.log[i]) # <<>>
        /\ probe.linesOfCode >= Cardinality({j \in SplitIterations : probe.log[j].it.counted})

\* C36 witness: the file of the one line "/*x*/" was counted: the block was
\* opened and closed on the line, and the line was skipped.
C36_Witness ==
    /\ pc = "counted"
    /\ probe.lines = << <<"/", "*", "x", "*", "/">> >>
    /\ Len(probe.log) = 1
    /\ probe.log[1].it.start = "c"
    /\ probe.log[1].it.expectEndingComment = <<>>
    /\ ~probe.log[1].it.counted
    /\ probe.linesOfCode = 0

\* The end token that the start of a block of the kind sets.
BlockEnd(start) ==
    CASE start = "c" -> StarSlash
      [] start = "python" -> pythonMultilineString
      [] start = "ruby-begin" -> RubyEnd
      [] start = "ruby-doc" -> RubyDoc

\* What is left of a line after the first occurrence of the token.
AfterToken(line, token) ==
    TrimSpace(SubSeq(line, Index(line, token) + Len(token), Len(line)))

\* The lines taken so far that are not blank.
NonBlankTaken == {i \in 1..Len(probe.log) : TrimSpace(probe.log[i].line) # <<>>}

\* C37: the counter took the lines of the file in order, one per iteration.
\* An iteration that starts with the expected end set and whose line does not
\* contain it does not count the line and leaves the expected end as it
\* was; if the line contains it, the iteration does with the text after the
\* first end token exactly what an iteration outside a block does with that
\* text as its line (it may count it, and it may open a new block), and the
\* old block is over. The expected end after an iteration is set only if it
\* was left unchanged inside a block or the iteration detected a block
\* start, and then it is the end token of that start. The count is the
\* number of counted lines, every counted line is not blank, and the count
\* lies between 0 and the number of non-blank lines taken.
C37_BlockStateMachine ==
    /\ Len(probe.log) = probe.next - 1
    /\ probe.next <= Len(probe.lines) + 1
    /\ \A i \in 1..Len(probe.log) :
        LET entry == probe.log[i]
            inBlock == entry.before # <<>>
            hasEnd == Contains(entry.line, entry.before)
        IN  /\ entry.line = probe.lines[i]
            /\ entry.before = IF i = 1 THEN <<>> ELSE probe.log[i - 1].it.expectEndingComment
            /\ (inBlock /\ ~hasEnd) =>
                  ~entry.it.counted /\ entry.it.expectEndingComment = entry.before
            /\ (inBlock /\ hasEnd) =>
                  entry.it = OrdinaryLine(AfterToken(entry.line, entry.before),
                                          probe.language)
            /\ ~inBlock => entry.it = OrdinaryLine(entry.line, probe.language)
            /\ entry.it.expectEndingComment # <<>> =>
                  \/ inBlock /\ ~hasEnd /\ entry.it.expectEndingComment = entry.before
                  \/ /\ entry.it.start # "none"
                     /\ entry.it.expectEndingComment = BlockEnd(entry.it.start)
            /\ entry.it.counted => i \in NonBlankTaken
    /\ probe.expectEndingComment =
          IF probe.log = <<>> THEN <<>>
          ELSE probe.log[Len(probe.log)].it.expectEndingComment
    /\ probe.linesOfCode = Cardinality({i \in 1..Len(probe.log) : probe.log[i].it.counted})
    /\ 0 <= probe.linesOfCode
    /\ probe.linesOfCode <= Cardinality(NonBlankTaken)

\* C37 witness: a file of the lines "/*" and "*/x/*" was counted: the first
\* line opened a block and was skipped, the second closed it, was counted
\* for the x after the end token, and opened a block again.
C37_Witness ==
    /\ pc = "counted"
    /\ probe.lines = << <<"/", "*">>, <<"*", "/", "x", "/", "*">> >>
    /\ probe.log[1].it.expectEndingComment = StarSlash
    /\ ~probe.log[1].it.counted
    /\ probe.log[2].before = StarSlash
    /\ probe.log[2].it.counted
    /\ probe.log[2].it.start = "c"
    /\ probe.expectEndingComment = StarSlash
    /\ probe.linesOfCode = 1

(***************************************************************************)
(* The created-directories cache: writeFile called for the files of a walk *)
(* that share directories, with every answer of the file system, and a log *)
(* of the calls of os.MkdirAll.                                            *)
(***************************************************************************)
MaxDirFiles == 3

\* Files in the directory d, in the directory e and in the output root.
DirFiles == {
    [name |-> <<"d", "/", "a">>, mode |-> "Regular", hash |-> 1],
    [name |-> <<"d", "/", "b">>, mode |-> "Regular", hash |-> 2],
    [name |-> <<"d", "/", "c">>, mode |-> "Executable", hash |-> 1],
    [name |-> <<"e", "/", "a">>, mode |-> "Regular", hash |-> 2],
    [name |-> <<"x">>, mode |-> "Regular", hash |-> 1]
    }

\* The walks: up to MaxDirFiles different files, in every order.
DirWalks ==
    {w \in UNION {[1..n -> DirFiles] : n \in 1..MaxDirFiles} :
        \A i, j \in 1..Len(w) : w[i] = w[j] => i = j}

\* An ensureDir without the cache: os.MkdirAll is called every time.
ensureDir_NoCache(cache, dirPath, fs) ==
    [called |-> TRUE,
     failed |-> fs # "ok",
     createdDirs |-> IF fs = "ok" THEN cache \cup {dirPath} ELSE cache]

\* ensureDir: whether os.MkdirAll is called, whether ensureDir returns an
\* error, and the cache afterwards; fs is what os.MkdirAll answers if called.
ensureDir(cache, dirPath, fs) ==
    IF dirPath \in cache
    THEN [called |-> FALSE, failed |-> FALSE, createdDirs |-> cache]
    ELSE [called |-> TRUE,
          failed |-> fs # "ok",
          createdDirs |-> IF fs = "ok" THEN cache \cup {dirPath} ELSE cache]

WriterOptions ==
    Options(CHOOSE f \in EngineFilterSettings :
                /\ f.IncludePatterns = <<>> /\ f.ExcludePatterns = <<>>
                /\ f.PathsFileLocation = "" /\ ~f.TextFilesOnly /\ ~f.IgnoreCasePatterns,
            [DefaultMode EXCEPT !.SkipDoubleCheck = TRUE])

InitDirs ==
    \E w \in DirWalks :
        /\ opts = WriterOptions
        /\ flags = WriterOptions
        /\ provider = NewProvider(WriterOptions)
        /\ tree = w
        /\ walk = w
        /\ pc = "walk"
        /\ probe = [mkdirs |-> <<>>]
        /\ exitCode = NotExited
        /\ hidden = FALSE
        /\ mutations = 0
        /\ err = NilErr
        /\ attempt = 0
        /\ dryRun = FALSE
        /\ totalCount = 0
        /\ writtenCount = 0
        /\ totalCountDryRun = 0
        /\ snapCounts = [totalCount |-> 0, writtenCount |-> 0]
        /\ disk = {}
        /\ markers = {}
        /\ indexFile = ClosedIndex
        /\ createdDirs = {}
        /\ statsCollector = NoStats
        /\ statsOutput = NoStats
        /\ hist = NoHist
        /\ outcomes = <<>>

\* writeFile for the next file of the walk; the step logs what ensureDir did.
WriteNext ==
    /\ AtFile
    /\ \E ends \in WriteEnds :
       \E mk \in (IF ends = "mkdir" THEN FsOutcomes \ {"ok"} ELSE {"ok"}) :
       \E fs \in (IF ends = "open" THEN FsOutcomes \ {"ok"} ELSE {mk}) :
       \E copied \in (IF ends = "copy"
                      THEN 0..(BlobSize(Head(walk).hash) - 1) \cup {0}
                      ELSE {0}) :
       \E made \in {ensureDir(createdDirs, Dir(Head(walk).name), mk)} :
            /\ (ends = "mkdir") = made.failed
            /\ writeFile(Head(walk), ends, fs, copied, "ok")
            /\ hist' = [hist EXCEPT !.lastWrite = [ends |-> ends, fs |-> fs,
                                                   at |-> totalCount + 1]]
            /\ probe' = [probe EXCEPT !.mkdirs =
                            Append(@, [dir |-> Dir(Head(walk).name),
                                       cached |-> Dir(Head(walk).name) \in createdDirs,
                                       called |-> made.called,
                                       answer |-> IF made.called THEN mk ELSE "none"])]
    /\ UNCHANGED <<opts, tree, hidden, mutations, provider, attempt, dryRun,
                   totalCountDryRun, snapCounts, statsCollector, statsOutput,
                   flags, exitCode>>

NextDirs == WriteNext \/ WalkEOF

SpecDirs == InitDirs /\ [][NextDirs]_vars

\* The directories whose creation had succeeded before the i-th call.
CreatedBefore(i) ==
    {probe.mkdirs[j].dir : j \in {k \in 1..(i - 1) :
        probe.mkdirs[k].called /\ probe.mkdirs[k].answer = "ok"}}

\* C38: in every state the cache holds exactly the directories for which a
\* call of os.MkdirAll in this run succeeded; a call that failed added
\* nothing, so that the next file of the same directory calls os.MkdirAll
\* again; and the writer calls os.MkdirAll for the directory of a file
\* exactly if the directory is not in the cache at that time.
C38_CreatedDirsCache ==
    /\ createdDirs = CreatedBefore(Len(probe.mkdirs) + 1)
    /\ \A i \in 1..Len(probe.mkdirs) :
          /\ probe.mkdirs[i].dir = Dir(tree[i].name)
          /\ probe.mkdirs[i].cached = (probe.mkdirs[i].dir \in CreatedBefore(i))
          /\ probe.mkdirs[i].called = ~probe.mkdirs[i].cached
          /\ (i > 1 /\ probe.mkdirs[i - 1].dir = probe.mkdirs[i].dir
                /\ probe.mkdirs[i - 1].answer \notin {"ok", "none"}) =>
                   probe.mkdirs[i].called

\* C38 witness: three files of the directory d were handed to the writer;
\* for the first the creation of d failed with ENAMETOOLONG and the file was
\* skipped, for the second it was tried again and succeeded, for the third
\* no call was made.
C38_Witness ==
    /\ pc = "returned"
    /\ Len(probe.mkdirs) = 3
    /\ \A i \in 1..3 : probe.mkdirs[i].dir = <<"d">>
    /\ probe.mkdirs[1].called /\ probe.mkdirs[1].answer = "ENAMETOOLONG"
    /\ probe.mkdirs[2].called /\ probe.mkdirs[2].answer = "ok"
    /\ ~probe.mkdirs[3].called
    /\ outcomes[1].fate = "write-skipped"
    /\ outcomes[2].fate = "written" /\ outcomes[3].fate = "written"
    /\ createdDirs = {<<"d">>}

(***************************************************************************)
(* The worker pool of the earlier, parallel snapshot: a job queue with a   *)
(* buffered channel and a wait group, poolSize workers, and the goroutine  *)
(* of snapshot() that adds one job per file, waits and closes the queue.   *)
(* The goroutines interleave at every channel and wait-group operation.    *)
(***************************************************************************)
MaxJobs == 3

MaxPoolSize == 2

MaxQueueSize == 2

\* What snapshot() passes to Add, in order: functions, and nil.
JobLists == UNION {[1..n -> {"func", "nil"}] : n \in 0..MaxJobs}

\* The jobs are told apart by their place in the list.
JobIds == 1..MaxJobs

\* A worker between two jobs.
IdleWorker == [at |-> "receive", job |-> 0]

\* CreateJobQueue: an empty channel of the given capacity, a wait group at 0
\* and poolSize workers at their receive.
CreateJobQueue(queueSize, poolSize, jobs) ==
    [queueSize |-> queueSize, poolSize |-> poolSize, jobs |-> jobs,
     jobsChannel |-> <<>>, closed |-> FALSE, waitGroup |-> 0,
     workers |-> [w \in 1..poolSize |-> IdleWorker],
     caller |-> "add", next |-> 1, adding |-> 0, errors |-> 0,
     executed |-> [j \in JobIds |-> 0], doneCalls |-> 0]

InitQueue ==
    \E queueSize \in 1..MaxQueueSize, poolSize \in 1..MaxPoolSize, jobs \in JobLists :
        /\ probe = CreateJobQueue(queueSize, poolSize, jobs)
        /\ pc = "queue"
        /\ opts = Options(CHOOSE f \in FilterSettings : TRUE, DefaultMode)
        /\ flags = opts
        /\ provider = NoProvider
        /\ exitCode = NotExited
        /\ tree = <<>>
        /\ hidden = FALSE
        /\ mutations = 0
        /\ err = NilErr
        /\ attempt = 0
        /\ dryRun = FALSE
        /\ walk = <<>>
        /\ totalCount = 0
        /\ writtenCount = 0
        /\ totalCountDryRun = 0
        /\ snapCounts = [totalCount |-> 0, writtenCount |-> 0]
        /\ disk = {}
        /\ markers = {}
        /\ indexFile = ClosedIndex
        /\ createdDirs = {}
        /\ statsCollector = NoStats
        /\ statsOutput = NoStats
        /\ hist = NoHist
        /\ outcomes = <<>>

\* Everything but the queue.
QueueFrame ==
    UNCHANGED <<opts, tree, hidden, mutations, pc, err, provider, attempt, dryRun,
                walk, totalCount, writtenCount, totalCountDryRun, snapCounts, disk,
                markers, indexFile, createdDirs, statsCollector, statsOutput, hist,
                outcomes, flags, exitCode>>

\* Add(nil): the error, and nothing else.
AddNil ==
    /\ pc = "queue"
    /\ probe.caller = "add"
    /\ probe.next <= Len(probe.jobs)
    /\ probe.jobs[probe.next] = "nil"
    /\ probe' = [probe EXCEPT !.errors = @ + 1, !.next = @ + 1]
    /\ QueueFrame

\* Add of a function, first half: waitGroup.Add(1).
AddCount ==
    /\ pc = "queue"
    /\ probe.caller = "add"
    /\ probe.next <= Len(probe.jobs)
    /\ probe.jobs[probe.next] = "func"
    /\ probe' = [probe EXCEPT !.waitGroup = @ + 1, !.caller = "send",
                              !.adding = probe.next]
    /\ QueueFrame

\* Add of a function, second half: the send, which blocks while the channel
\* is full.
AddSend ==
    /\ pc = "queue"
    /\ probe.caller = "send"
    /\ Len(probe.jobsChannel) < probe.queueSize
    /\ probe' = [probe EXCEPT !.jobsChannel = Append(@, probe.adding),
                              !.caller = "add", !.adding = 0, !.next = @ + 1]
    /\ QueueFrame

\* ForEach is through: snapshot() calls Wait.
CallWait ==
    /\ pc = "queue"
    /\ probe.caller = "add"
    /\ probe.next > Len(probe.jobs)
    /\ probe' = [probe EXCEPT !.caller = "wait"]
    /\ QueueFrame

\* A Wait that returns as soon as the channel is empty.
WaitReturns_OnEmptyChannel ==
    /\ pc = "queue"
    /\ probe.caller = "wait"
    /\ probe.jobsChannel = <<>>
    /\ probe' = [probe EXCEPT !.caller = "waited"]
    /\ QueueFrame

\* waitGroup.Wait returns: the counter is 0.
WaitReturns ==
    /\ pc = "queue"
    /\ probe.caller = "wait"
    /\ probe.waitGroup = 0
    /\ probe' = [probe EXCEPT !.caller = "waited"]
    /\ QueueFrame

\* The deferred Close: close(jobsChannel).
CloseQueue ==
    /\ pc = "queue"
    /\ probe.caller = "waited"
    /\ probe' = [probe EXCEPT !.caller = "closed", !.closed = TRUE]
    /\ QueueFrame

\* worker: the range over the channel receives a job.
WorkerReceive(w) ==
    /\ pc = "queue"
    /\ w \in DOMAIN probe.workers
    /\ probe.workers[w].at = "receive"
    /\ probe.jobsChannel # <<>>
    /\ probe' = [probe EXCEPT !.jobsChannel = Tail(@),
                              !.workers[w] = [at |-> "job", job |-> Head(probe.jobsChannel)]]
    /\ QueueFrame

\* worker: job() runs and returns.
WorkerRuns(w) ==
    /\ pc = "queue"
    /\ w \in DOMAIN probe.workers
    /\ probe.workers[w].at = "job"
    /\ probe' = [probe EXCEPT !.executed[probe.workers[w].job] = @ + 1,
                              !.workers[w].at = "done"]
    /\ QueueFrame

\* worker: waitGroup.Done().
WorkerDone(w) ==
    /\ pc = "queue"
    /\ w \in DOMAIN probe.workers
    /\ probe.workers[w].at = "done"
    /\ probe' = [probe EXCEPT !.waitGroup = @ - 1, !.doneCalls = @ + 1,
                              !.workers[w] = IdleWorker]
    /\ QueueFrame

\* worker: the channel is closed and empty, the range ends.
WorkerExit(w) ==
    /\ pc = "queue"
    /\ w \in DOMAIN probe.workers
    /\ probe.workers[w].at = "receive"
    /\ probe.jobsChannel = <<>>
    /\ probe.closed
    /\ probe' = [probe EXCEPT !.workers[w].at = "exited"]
    /\ QueueFrame

\* The steps of the calling goroutine and of the workers.
CallerNext == AddNil \/ AddCount \/ AddSend \/ CallWait \/ WaitReturns \/ CloseQueue

WorkerNext(w) == WorkerReceive(w) \/ WorkerRuns(w) \/ WorkerDone(w) \/ WorkerExit(w)

NextQueue ==
    \/ AddNil
    \/ AddCount
    \/ AddSend
    \/ CallWait
    \/ WaitReturns
    \/ CloseQueue
    \/ \E w \in 1..MaxPoolSize : WorkerReceive(w)
    \/ \E w \in 1..MaxPoolSize : WorkerRuns(w)
    \/ \E w \in 1..MaxPoolSize : WorkerDone(w)
    \/ \E w \in 1..MaxPoolSize : WorkerExit(w)

SpecQueue == InitQueue /\ [][NextQueue]_vars

\* The Go scheduler runs every goroutine that can run, and a job returns.
SpecQueueFair ==
    /\ SpecQueue
    /\ WF_vars(CallerNext)
    /\ \A w \in 1..MaxPoolSize : WF_vars(WorkerNext(w))

\* The places of the list whose Add has returned, with a function and with nil.
AddedFuncs == {j \in 1..(probe.next - 1) : probe.jobs[j] = "func"}
AddedNils == {j \in 1..(probe.next - 1) : probe.jobs[j] = "nil"}

\* Where a job is: the places of the channel that hold it, and the workers
\* that have received it and not yet called Done.
InChannel(j) == {i \in 1..Len(probe.jobsChannel) : probe.jobsChannel[i] = j}
Holders(j) == {w \in DOMAIN probe.workers :
                  probe.workers[w].job = j /\ probe.workers[w].at \in {"job", "done"}}

\* The job has run and its worker has called Done.
Finished(j) == probe.executed[j] = 1 /\ Holders(j) = {}

\* Wait has returned.
Waited == probe.caller \in {"waited", "closed"}

\* What holds of the queue in every state.
QueueSafe ==
    /\ DOMAIN probe.workers = 1..probe.poolSize
    /\ Cardinality({w \in DOMAIN probe.workers : probe.workers[w].at = "job"})
          <= probe.poolSize
    /\ Len(probe.jobsChannel) <= probe.queueSize
    /\ \A j \in JobIds :
          /\ probe.executed[j] <= 1
          /\ IF j \in AddedFuncs
             THEN /\ Cardinality(InChannel(j)) + Cardinality(Holders(j))
                        + (IF Finished(j) THEN 1 ELSE 0) = 1
                  /\ probe.executed[j] = 1 =>
                        \A w \in Holders(j) : probe.workers[w].at = "done"
             ELSE /\ InChannel(j) = {} /\ Holders(j) = {}
                  /\ probe.executed[j] = 0
    /\ probe.errors = Cardinality(AddedNils)
    /\ probe.waitGroup = Cardinality(AddedFuncs)
                            + (IF probe.caller = "send" THEN 1 ELSE 0) - probe.doneCalls
    /\ probe.waitGroup >= 0
    /\ Waited =>
          /\ probe.next = Len(probe.jobs) + 1
          /\ \A j \in AddedFuncs : Finished(j)
          /\ probe.jobsChannel = <<>>

\* C39: in every state a function passed to Add is in the channel once, or
\* with one worker, or has been executed once and is finished, and nothing
\* else is ever executed; the jobs running at one time are at most poolSize;
\* the wait group counts the functions added and not yet done; a step in
\* which Add(nil) returns its error changes neither the channel nor the
\* wait group nor a worker; when Wait has returned, every function added
\* before it has been executed exactly once and is finished; and with a
\* scheduler that runs every goroutine that can run, and jobs that return,
\* Wait eventually returns.
C39_JobQueue ==
    /\ []QueueSafe
    /\ [][probe'.errors # probe.errors =>
            /\ probe'.errors = probe.errors + 1
            /\ probe.jobs[probe.next] = "nil"
            /\ probe'.jobsChannel = probe.jobsChannel
            /\ probe'.waitGroup = probe.waitGroup
            /\ probe'.workers = probe.workers
            /\ probe'.executed = probe.executed]_vars
    /\ <>Waited

\* C39 witness: Wait has returned for a list of a function, nil and a
\* function given to a queue of capacity 1 with two workers: both functions
\* were executed once, the nil was refused.
C39_Witness ==
    /\ probe.caller = "waited"
    /\ probe.jobs = <<"func", "nil", "func">>
    /\ probe.queueSize = 1 /\ probe.poolSize = 2
    /\ probe.errors = 1
    /\ probe.executed = [j \in JobIds |-> IF j = 2 THEN 0 ELSE 1]
    /\ probe.doneCalls = 2
    /\ probe.waitGroup = 0

====
